---- MODULE Spec2Model ----
(***************************************************************************)
(* Reliable file transfer over UDP (COL334-A4).                            *)
(*   Variant B: part2/p2_server.py (ReliableServer: writer thread + ACK    *)
(*              reader thread) and part2/p2_client.py (Receiver).          *)
(*   Variant A: part1/p1_server.py and part1/p1_client.py.                 *)
(* The datagram channel loses and reorders.                                *)
(***************************************************************************)
EXTENDS Integers, Sequences, FiniteSets, TLC

(***************************************************************************)
(* Program constants                                                       *)
(***************************************************************************)
UDP_MAX == 1200
HEADER_LEN == 20
DATA_PAYLOAD == UDP_MAX - HEADER_LEN
MSS == UDP_MAX
\* cwnd and ssthresh are Python floats; they are kept in fixed point, in
\* units of 1/CwndScale byte, divisions rounding down.
CwndScale == 16
INIT_SSTHRESH_MSS == 1000
CWND_CAP_MSS == 10000
INIT_RTO_US == 1000000
MIN_RTO_US == 200000
MAX_RTO_US == 3000000
RTO_FLOOR_US == 10000
DUP_THRESHOLD == 3
EOF_SENDS == 5
HANDSHAKE_ATTEMPTS == 5
MAX_CONSECUTIVE_TIMEOUTS == 10

(***************************************************************************)
(* Bounds of the model                                                     *)
(***************************************************************************)
\* sender retransmission-timer expiries (passes of the loop that find one)
MaxSrvTimeouts == 1
\* receive timeouts of the receiver during the download
MaxCliTimeouts == 2
\* part 1: the copies of the EOF packet, of the ten sent, that are not lost
MaxEofCopies == 2
\* the history counters count up to this value and stay there
HistCap == 2
\* on a lossless channel the duplicate-ACK counter counts up to this value and
\* stays there (the code tests it against DUP_THRESHOLD only)
MaxDupCount == 4

(***************************************************************************)
(* Byte strings.  A Python bytes object is kept run-length encoded: a      *)
(* sequence of runs <<byte, count>>, count > 0, adjacent runs of different *)
(* bytes, so that equal byte strings have equal representations.           *)
(***************************************************************************)
RECURSIVE BLen(_)
BLen(b) == IF b = <<>> THEN 0 ELSE Head(b)[2] + BLen(Tail(b))

BCat(a, b) ==
    IF a = <<>> THEN b
    ELSE IF b = <<>> THEN a
    ELSE IF a[Len(a)][1] = b[1][1]
         THEN SubSeq(a, 1, Len(a) - 1)
              \o << <<b[1][1], a[Len(a)][2] + b[1][2]>> >>
              \o Tail(b)
         ELSE a \o b

RECURSIVE BTake(_, _)
BTake(b, n) ==
    IF n <= 0 \/ b = <<>> THEN <<>>
    ELSE IF Head(b)[2] >= n THEN << <<Head(b)[1], n>> >>
    ELSE <<Head(b)>> \o BTake(Tail(b), n - Head(b)[2])

RECURSIVE BDrop(_, _)
BDrop(b, n) ==
    IF n <= 0 \/ b = <<>> THEN b
    ELSE IF Head(b)[2] > n THEN << <<Head(b)[1], Head(b)[2] - n>> >> \o Tail(b)
    ELSE BDrop(Tail(b), n - Head(b)[2])

\* Python's b[lo:hi] for 0 <= lo, 0 <= hi
BSlice(b, lo, hi) == BTake(BDrop(b, lo), hi - lo)

\* b'EOF'
EOF_MARKER == << <<69, 1>>, <<79, 1>>, <<70, 1>> >>

Min(a, b) == IF a <= b THEN a ELSE b
Max(a, b) == IF a >= b THEN a ELSE b
SetMin(S) == CHOOSE x \in S : \A y \in S : x <= y
Abs(x) == IF x < 0 THEN -x ELSE x

(***************************************************************************)
(* data.txt: the files the sender may hold.                                *)
(***************************************************************************)
Fill(byte, n) == IF n = 0 THEN <<>> ELSE << <<byte, n>> >>

Files ==
    { <<>>,                                               \* the empty file
      Fill(1, 7),                                         \* one short chunk
      Fill(1, DATA_PAYLOAD) \o EOF_MARKER,                \* last chunk is b'EOF'
      Fill(1, DATA_PAYLOAD) \o Fill(2, DATA_PAYLOAD) \o Fill(3, 100) }

(***************************************************************************)
(* Packet codec (part 2).  A datagram is kept as its fields: the 4-byte    *)
(* big-endian word of the header, the 16 option bytes (for an ACK, two     *)
(* (start, end) pairs) and the body after the 20-byte header.              *)
(***************************************************************************)
\* struct.pack('!I', v): the four bytes of v, most significant first
Pack32(v) ==
    << (v \div 16777216) % 256, (v \div 65536) % 256, (v \div 256) % 256, v % 256 >>

\* struct.unpack('!I', b)[0]
Unpack32(b) == ((b[1] * 256 + b[2]) * 256 + b[3]) * 256 + b[4]

\* ReliableServer._build_packet
BuildPacket(seq, payload, eof_flag) ==
    [kind |-> "data", word |-> Pack32(seq),
     body |-> IF eof_flag THEN EOF_MARKER ELSE payload]

\* len(pkt); a datagram cut short of the header is kept as its length only
PacketLen(pkt) ==
    IF pkt.kind = "short" THEN pkt.len ELSE HEADER_LEN + BLen(pkt.body)

\* Receiver._parse_packet: <<seq, payload, eof_flag>>, seq = -1 for None
ParsePacket(pkt) ==
    IF PacketLen(pkt) < HEADER_LEN THEN [seq |-> -1, data |-> <<>>, eof |-> FALSE]
    ELSE IF pkt.body = EOF_MARKER
         THEN [seq |-> Unpack32(pkt.word), data |-> <<>>, eof |-> TRUE]
    ELSE [seq |-> Unpack32(pkt.word), data |-> pkt.body, eof |-> FALSE]

PadBlock == <<Pack32(0), Pack32(0)>>

\* Receiver._compose_ack: cumulative word, then at most two blocks, zero padded
ComposeAck(next_expected, sack_blocks) ==
    [kind |-> "ack", word |-> Pack32(next_expected),
     opt  |-> << IF Len(sack_blocks) >= 1
                    THEN <<Pack32(sack_blocks[1][1]), Pack32(sack_blocks[1][2])>>
                    ELSE PadBlock,
                 IF Len(sack_blocks) >= 2
                    THEN <<Pack32(sack_blocks[2][1]), Pack32(sack_blocks[2][2])>>
                    ELSE PadBlock >>]

\* the two (start, end) pairs of the option area of an ACK
AckBlocks(pkt) ==
    [i \in 1..2 |-> <<Unpack32(pkt.opt[i][1]), Unpack32(pkt.opt[i][2])>>]

\* ReliableServer._decode_ack: a block counts when start > 0 and end > start
DecodeAck(pkt) ==
    [ack  |-> Unpack32(pkt.word),
     sack |-> SelectSeq(AckBlocks(pkt), LAMBDA b : b[1] > 0 /\ b[2] > b[1])]

(***************************************************************************)
(* Sender (part 2): the state guarded by ReliableServer._lock, as a record *)
(*   cwnd, ssthresh (fixed point), in_slow_start,                          *)
(*   inflight : seq -> [payload, last_sent, first_sent],                   *)
(*   base, sack_blocks, dup_count, last_ack,                               *)
(*   rtt_estimate, rtt_dev (microseconds, -1 for None), rto (microseconds) *)
(* and the methods that run under the lock, as operators on that record.   *)
(***************************************************************************)
NoneVal == -1

ServerInit ==
    [cwnd |-> MSS * CwndScale,
     ssthresh |-> INIT_SSTHRESH_MSS * MSS * CwndScale,
     in_slow_start |-> TRUE,
     inflight |-> <<>>,
     base |-> 0,
     sack_blocks |-> <<>>,
     dup_count |-> 0,
     last_ack |-> 0,
     rtt_estimate |-> NoneVal,
     rtt_dev |-> NoneVal,
     rto |-> INIT_RTO_US]

\* ReliableServer._observe_rtt
ObserveRtt(S, sample) ==
    IF sample <= 0 THEN S
    ELSE LET dev == IF S.rtt_estimate = NoneVal THEN sample \div 2
                    ELSE (3 * S.rtt_dev + Abs(S.rtt_estimate - sample)) \div 4
             est == IF S.rtt_estimate = NoneVal THEN sample
                    ELSE (7 * S.rtt_estimate + sample) \div 8
             rto == est + Max(RTO_FLOOR_US, 4 * dev)
         IN [S EXCEPT !.rtt_estimate = est, !.rtt_dev = dev,
                      !.rto = Max(MIN_RTO_US, Min(rto, MAX_RTO_US))]

RECURSIVE ObserveRttTimes(_, _, _)
ObserveRttTimes(S, sample, n) ==
    IF n = 0 THEN S ELSE ObserveRttTimes(ObserveRtt(S, sample), sample, n - 1)

\* ReliableServer._get_current_window: int(self.cwnd)
GetCurrentWindow(S) == S.cwnd \div CwndScale

\* _on_new_ack without the cap of 10000 * MSS
OnNewAckNoCap(S, bytes_acked) ==
    LET grown == IF S.in_slow_start
                 THEN S.cwnd + bytes_acked * CwndScale
                 ELSE S.cwnd + (MSS * MSS * 2 * CwndScale * CwndScale) \div S.cwnd
        leave == S.in_slow_start /\ grown >= S.ssthresh
    IN [S EXCEPT !.cwnd = grown,
                 !.in_slow_start = IF leave THEN FALSE ELSE @]

\* _on_new_ack that never leaves slow start
OnNewAckSticky(S, bytes_acked) ==
    LET grown == IF S.in_slow_start
                 THEN S.cwnd + bytes_acked * CwndScale
                 ELSE S.cwnd + (MSS * MSS * 2 * CwndScale * CwndScale) \div S.cwnd
    IN [S EXCEPT !.cwnd = Min(grown, CWND_CAP_MSS * MSS * CwndScale)]

\* ReliableServer._on_new_ack
OnNewAck(S, bytes_acked) ==
    LET grown == IF S.in_slow_start
                 THEN S.cwnd + bytes_acked * CwndScale
                 ELSE S.cwnd + (MSS * MSS * 2 * CwndScale * CwndScale) \div S.cwnd
        leave == S.in_slow_start /\ grown >= S.ssthresh
    IN [S EXCEPT !.cwnd = Min(grown, CWND_CAP_MSS * MSS * CwndScale),
                 !.in_slow_start = IF leave THEN FALSE ELSE @]

\* _on_timeout without the floor of 2 * MSS under ssthresh
OnTimeoutNoFloor(S) ==
    [S EXCEPT !.ssthresh = S.cwnd \div 2,
              !.cwnd = MSS * CwndScale,
              !.in_slow_start = TRUE]

\* ReliableServer._on_timeout
OnTimeout(S) ==
    [S EXCEPT !.ssthresh = Max(S.cwnd \div 2, 2 * MSS * CwndScale),
              !.cwnd = MSS * CwndScale,
              !.in_slow_start = TRUE]

\* _on_fast_retransmit that collapses the window to one MSS as a timeout does
OnFastRetransmitCollapse(S) ==
    [S EXCEPT !.ssthresh = Max(S.cwnd \div 2, 2 * MSS * CwndScale),
              !.cwnd = MSS * CwndScale,
              !.in_slow_start = TRUE]

\* ReliableServer._on_fast_retransmit
OnFastRetransmit(S) ==
    LET half == Max(S.cwnd \div 2, 2 * MSS * CwndScale)
    IN [S EXCEPT !.ssthresh = half, !.cwnd = half, !.in_slow_start = FALSE]

RECURSIVE SumLen(_, _)
SumLen(infl, keys) ==
    IF keys = {} THEN 0
    ELSE LET k == CHOOSE x \in keys : TRUE
         IN BLen(infl[k].payload) + SumLen(infl, keys \ {k})

\* ReliableServer._inflight_bytes
InflightBytes(S) == SumLen(S.inflight, DOMAIN S.inflight)

\* _can_transmit that admits every segment
CanTransmitAlways(S, bytes_len) == TRUE

\* ReliableServer._can_transmit
CanTransmit(S, bytes_len) == InflightBytes(S) + bytes_len <= GetCurrentWindow(S)

\* time.monotonic(): a reading later than every reading stored in an entry
Now(S) ==
    LET stamps == { S.inflight[k].last_sent : k \in DOMAIN S.inflight }
    IN IF stamps = {} THEN 1
       ELSE 1 + (CHOOSE t \in stamps : \A u \in stamps : u <= t)

\* ReliableServer._record_transmit, the clock reading being now
RecordTransmit(S, seq, data, now) ==
    IF seq \in DOMAIN S.inflight
    THEN [S EXCEPT !.inflight[seq].last_sent = now]
    ELSE [S EXCEPT !.inflight = [k \in DOMAIN S.inflight \cup {seq} |->
              IF k = seq THEN [payload |-> data, last_sent |-> now, first_sent |-> now]
              ELSE S.inflight[k]]]

\* ReliableServer._is_sacked
IsSacked(S, seq, size) ==
    \E i \in 1..Len(S.sack_blocks) :
        seq >= S.sack_blocks[i][1] /\ seq + size <= S.sack_blocks[i][2]

\* ReliableServer._detect_timeouts.  now - last_sent > rto selects the entries
\* last sent before the instant cutoff = now - rto.
DetectTimeouts(S, cutoff) ==
    { seq \in DOMAIN S.inflight :
        /\ S.inflight[seq].last_sent < cutoff
        /\ ~IsSacked(S, seq, BLen(S.inflight[seq].payload)) }

\* ReliableServer._get_payload: <<>> stands for None (no entry)
GetPayload(S, seq) ==
    IF seq \in DOMAIN S.inflight THEN S.inflight[seq].payload ELSE <<>>

HasPayload(S, seq) == seq \in DOMAIN S.inflight

\* _all_acked that does not look at the inflight table
AllAckedBlind(S) == S.base >= 0

\* ReliableServer._all_acked
AllAcked(S) == DOMAIN S.inflight = {}

\* the loop of _mark_ack removing every entry, acknowledged or not
AckedSeqsAll(S, ack_num) == DOMAIN S.inflight

\* The entries one new ACK removes (the loop of _mark_ack over _inflight)
AckedSeqs(S, ack_num) ==
    { seq \in DOMAIN S.inflight :
        \/ seq + BLen(S.inflight[seq].payload) <= ack_num
        \/ IsSacked(S, seq, BLen(S.inflight[seq].payload)) }

\* Those of them that give an RTT sample: cumulatively acknowledged and
\* last_sent == first_sent
SampledSeqs(S, ack_num) ==
    { seq \in DOMAIN S.inflight :
        /\ seq + BLen(S.inflight[seq].payload) <= ack_num
        /\ S.inflight[seq].last_sent = S.inflight[seq].first_sent }

\* The segments whose RTT one call of _mark_ack feeds to _observe_rtt: none
\* for an old or a duplicate ACK, which return before the loop
ObservedSeqs(S, ack_num) ==
    IF ack_num >= S.base /\ ack_num # S.last_ack /\ ack_num > S.base
    THEN SampledSeqs(S, ack_num) ELSE {}

\* _mark_ack that signals a fast retransmit on every duplicate from the third
\* on (>= in place of ==)
MarkAckEveryDup(S, ack_num, sack_list, sample) ==
    LET S1 == [S EXCEPT !.sack_blocks = sack_list]
    IN
    IF ack_num < S1.base
    THEN [S |-> S1, fast_seq |-> NoneVal, moved |-> FALSE, event |-> FALSE]
    ELSE IF ack_num = S1.last_ack
    THEN LET S2 == [S1 EXCEPT !.dup_count = @ + 1]
         IN IF S2.dup_count >= DUP_THRESHOLD
            THEN LET S3 == OnFastRetransmit(S2)
                 IN IF /\ S3.base \in DOMAIN S3.inflight
                       /\ ~IsSacked(S3, S3.base, BLen(S3.inflight[S3.base].payload))
                    THEN [S |-> S3, fast_seq |-> S3.base, moved |-> FALSE, event |-> TRUE]
                    ELSE [S |-> S3, fast_seq |-> NoneVal, moved |-> FALSE, event |-> TRUE]
            ELSE [S |-> S2, fast_seq |-> NoneVal, moved |-> FALSE, event |-> FALSE]
    ELSE IF ack_num > S1.base
    THEN LET gone  == AckedSeqs(S1, ack_num)
             bytes == SumLen(S1.inflight, gone)
             S2 == ObserveRttTimes(S1, sample, Cardinality(SampledSeqs(S1, ack_num)))
             S3 == [S2 EXCEPT !.inflight =
                        [k \in DOMAIN S1.inflight \ gone |-> S1.inflight[k]]]
             S4 == IF bytes > 0 THEN OnNewAck(S3, bytes) ELSE S3
             S5 == [S4 EXCEPT !.base = ack_num, !.last_ack = ack_num,
                              !.dup_count = 0]
             S6 == [S5 EXCEPT !.sack_blocks =
                        SelectSeq(S5.sack_blocks, LAMBDA b : b[2] > ack_num)]
         IN [S |-> S6, fast_seq |-> NoneVal, moved |-> TRUE, event |-> FALSE]
    ELSE [S |-> S1, fast_seq |-> NoneVal, moved |-> FALSE, event |-> FALSE]

\* ReliableServer._mark_ack.  sample is now - first_sent of the segments this
\* ACK samples.  Result: the state, fast_seq (-1 for None), the moved flag,
\* and event: whether the call ran _on_fast_retransmit.
MarkAck(S, ack_num, sack_list, sample) ==
    LET S1 == [S EXCEPT !.sack_blocks = sack_list]
    IN
    IF ack_num < S1.base
    THEN [S |-> S1, fast_seq |-> NoneVal, moved |-> FALSE, event |-> FALSE]
    ELSE IF ack_num = S1.last_ack
    THEN LET S2 == [S1 EXCEPT !.dup_count = @ + 1]
         IN IF S2.dup_count = DUP_THRESHOLD
            THEN LET S3 == OnFastRetransmit(S2)
                 IN IF /\ S3.base \in DOMAIN S3.inflight
                       /\ ~IsSacked(S3, S3.base, BLen(S3.inflight[S3.base].payload))
                    THEN [S |-> S3, fast_seq |-> S3.base, moved |-> FALSE, event |-> TRUE]
                    ELSE [S |-> S3, fast_seq |-> NoneVal, moved |-> FALSE, event |-> TRUE]
            ELSE [S |-> S2, fast_seq |-> NoneVal, moved |-> FALSE, event |-> FALSE]
    ELSE IF ack_num > S1.base
    THEN LET gone  == AckedSeqs(S1, ack_num)
             bytes == SumLen(S1.inflight, gone)
             S2 == ObserveRttTimes(S1, sample, Cardinality(SampledSeqs(S1, ack_num)))
             S3 == [S2 EXCEPT !.inflight =
                        [k \in DOMAIN S1.inflight \ gone |-> S1.inflight[k]]]
             S4 == IF bytes > 0 THEN OnNewAck(S3, bytes) ELSE S3
             S5 == [S4 EXCEPT !.base = ack_num, !.last_ack = ack_num,
                              !.dup_count = 0]
             S6 == [S5 EXCEPT !.sack_blocks =
                        SelectSeq(S5.sack_blocks, LAMBDA b : b[2] > ack_num)]
         IN [S |-> S6, fast_seq |-> NoneVal, moved |-> TRUE, event |-> FALSE]
    ELSE [S |-> S1, fast_seq |-> NoneVal, moved |-> FALSE, event |-> FALSE]

(***************************************************************************)
(* Receiver (part 2): the pure parts of Receiver                           *)
(***************************************************************************)
\* _drain_inorder_buffer that leaves the buffer as it finds it
DrainNothing(buf, ne, out) == [buffered |-> buf, next_expected |-> ne, output |-> out]

\* Receiver._drain_inorder_buffer: <<buffered, next_expected, bytes written>>
RECURSIVE DrainInorderBuffer(_, _, _)
DrainInorderBuffer(buf, ne, out) ==
    IF ne \in DOMAIN buf
    THEN DrainInorderBuffer([k \in DOMAIN buf \ {ne} |-> buf[k]],
                            ne + BLen(buf[ne]), BCat(out, buf[ne]))
    ELSE [buffered |-> buf, next_expected |-> ne, output |-> out]

\* dict.setdefault(seq, data)
SetDefault(buf, seq, data) ==
    IF seq \in DOMAIN buf THEN buf
    ELSE [k \in DOMAIN buf \cup {seq} |-> IF k = seq THEN data ELSE buf[k]]

\* Receiver._get_sack_blocks: the scan over sorted(buffered.keys()); cur is
\* <<cur_s, cur_e>> or <<>> for None
RECURSIVE SackScan(_, _, _, _)
SackScan(buf, keys, cur, blocks) ==
    IF keys = {} \/ Len(blocks) >= 2
    THEN IF cur # <<>> /\ Len(blocks) < 2 THEN Append(blocks, cur) ELSE blocks
    ELSE LET s == SetMin(keys)
             seg_end == s + BLen(buf[s])
             rest == keys \ {s}
         IN IF cur = <<>> THEN SackScan(buf, rest, <<s, seg_end>>, blocks)
            ELSE IF s <= cur[2]
                 THEN SackScan(buf, rest, <<cur[1], Max(cur[2], seg_end)>>, blocks)
                 ELSE SackScan(buf, rest, <<s, seg_end>>, Append(blocks, cur))

\* _get_sack_blocks that reports the first two buffered segments as they
\* are, without coalescing
RECURSIVE FirstSegments(_, _, _)
FirstSegments(buf, keys, blocks) ==
    IF keys = {} \/ Len(blocks) >= 2 THEN blocks
    ELSE FirstSegments(buf, keys \ {SetMin(keys)},
                       Append(blocks, <<SetMin(keys), SetMin(keys) + BLen(buf[SetMin(keys)])>>))

GetSackBlocksNoMerge(buf) == FirstSegments(buf, DOMAIN buf, <<>>)

GetSackBlocks(buf) ==
    IF DOMAIN buf = {} THEN <<>>
    ELSE SubSeq(SackScan(buf, DOMAIN buf, <<>>, <<>>), 1,
                Min(2, Len(SackScan(buf, DOMAIN buf, <<>>, <<>>))))

(***************************************************************************)
(* Part 1: part1/p1_server.py (ReliableUDPServer) and part1/p1_client.py   *)
(* (ReliableUDPClient): Selective Repeat with a sender window of SWS       *)
(* bytes.  The pure parts.                                                 *)
(***************************************************************************)
PACKET_SIZE == 1200
HEADER_SIZE == 20
DATA_SIZE == PACKET_SIZE - HEADER_SIZE
\* TIMEOUT = 0.5, the floor 0.1 and the cap 2.0 of the timeout, microseconds
TIMEOUT_US == 500000
MIN_TIMEOUT_US == 100000
MAX_TIMEOUT_US == 2000000
MAX_RETRIES == 5
P1_EOF_SENDS == 10
\* max_consecutive_timeouts, and the receive timeout and idle limit (seconds)
P1_MAX_CONSECUTIVE_TIMEOUTS == 10
P1_RECV_TIMEOUT_S == 5
P1_IDLE_LIMIT_S == 30

\* the SWS values of the command line the model follows
SwsValues == {1, DATA_SIZE, DATA_SIZE + 320}

\* ReliableUDPServer.create_packet
CreatePacket(seq_num, data) ==
    [kind |-> "data", word |-> Pack32(seq_num), body |-> data]

\* ReliableUDPClient.parse_packet: seq_num = -1 for None
P1ParsePacket(pkt) ==
    IF PacketLen(pkt) < HEADER_SIZE THEN [seq_num |-> NoneVal, data |-> <<>>]
    ELSE [seq_num |-> Unpack32(pkt.word), data |-> pkt.body]

\* ReliableUDPClient.create_sr_ack
CreateSrAck(packet_seq_num) ==
    [kind |-> "ack", word |-> Pack32(packet_seq_num), opt |-> <<PadBlock, PadBlock>>]

\* ReliableUDPServer.parse_sr_ack: -1 for None (a datagram under 4 bytes)
ParseSrAck(pkt) == IF pkt.kind = "ack" THEN Unpack32(pkt.word) ELSE NoneVal

\* send_file: len(chunks), and chunks[idx]
NumChunks(f) == (BLen(f) + DATA_SIZE - 1) \div DATA_SIZE

\* send_file: seq_numbers
SeqNumbers(f) == { i * DATA_SIZE : i \in 0..(NumChunks(f) - 1) }

ChunkAt(f, idx) == BSlice(f, idx * DATA_SIZE, (idx + 1) * DATA_SIZE)

\* ReliableUDPServer.__init__ and the resets at the head of send_file
P1ServerInit(sws) ==
    [pc |-> "wait_request",
     sws |-> sws,
     send_base |-> 0,
     next_seq |-> 0,
     packets |-> <<>>,
     individually_acked |-> {},
     estimated_rtt |-> TIMEOUT_US,
     dev_rtt |-> 0,
     timeout |-> TIMEOUT_US]

\* ReliableUDPServer.update_rtt
UpdateRtt(S, sample_rtt) ==
    LET first == S.estimated_rtt = TIMEOUT_US
        dev == IF first THEN sample_rtt \div 2
               ELSE (3 * S.dev_rtt + Abs(sample_rtt - S.estimated_rtt)) \div 4
        est == IF first THEN sample_rtt
               ELSE (7 * S.estimated_rtt + sample_rtt) \div 8
    IN [S EXCEPT !.estimated_rtt = est, !.dev_rtt = dev,
                 !.timeout = Max(est + 4 * dev, MIN_TIMEOUT_US)]

\* send_file: the test of the inner while
WindowOpen(S, f) ==
    S.next_seq < BLen(f) /\ S.next_seq - S.send_base < S.sws

\* send_file: one pass of the inner while (the datagram it sends is
\* CreatePacket(next_seq, chunk) when next_seq is not yet acknowledged)
SendNext(S, f) ==
    LET chunk == ChunkAt(f, S.next_seq \div DATA_SIZE)
        S1 == IF S.next_seq \in S.individually_acked THEN S
              ELSE [S EXCEPT !.packets =
                       [k \in DOMAIN S.packets \cup {S.next_seq} |->
                          IF k = S.next_seq THEN CreatePacket(S.next_seq, chunk)
                          ELSE S.packets[k]]]
    IN [S1 EXCEPT !.next_seq = S.next_seq + BLen(chunk)]

\* the slide of the window as an if: one step over the base, not a loop
SlideWindowOnce(S, f) ==
    IF S.send_base \in S.individually_acked
    THEN [S EXCEPT
            !.packets = [k \in DOMAIN S.packets \ {S.send_base} |-> S.packets[k]],
            !.send_base = S.send_base + BLen(ChunkAt(f, S.send_base \div DATA_SIZE))]
    ELSE S

\* send_file: the loop that slides the window while send_base is acknowledged
RECURSIVE SlideWindow(_, _)
SlideWindow(S, f) ==
    IF S.send_base \in S.individually_acked
    THEN LET chunk_idx == S.send_base \div DATA_SIZE
             advance_by == IF chunk_idx < NumChunks(f)
                           THEN BLen(ChunkAt(f, chunk_idx)) ELSE DATA_SIZE
         IN SlideWindow([S EXCEPT
                !.packets = [k \in DOMAIN S.packets \ {S.send_base} |-> S.packets[k]],
                !.send_base = S.send_base + advance_by], f)
    ELSE S

\* send_file: the branch for a datagram read after select; ack_seq = -1 for None
OnAck(S, f, ack_seq, sample_rtt) ==
    IF ack_seq = NoneVal THEN S
    ELSE LET S1 == IF ack_seq \in S.individually_acked THEN S
                   ELSE [(IF ack_seq \in DOMAIN S.packets
                          THEN UpdateRtt(S, sample_rtt) ELSE S)
                         EXCEPT !.individually_acked = S.individually_acked \cup {ack_seq}]
         IN SlideWindow(S1, f)

\* the timeout branch without its test of individually_acked
RetransmittedAll(S) ==
    { seq_num \in DOMAIN S.packets :
        seq_num >= S.send_base /\ seq_num < S.send_base + S.sws }

\* send_file: the sequence numbers the timeout branch sends again
Retransmitted(S) ==
    { seq_num \in DOMAIN S.packets :
        /\ seq_num >= S.send_base
        /\ seq_num < S.send_base + S.sws
        /\ seq_num \notin S.individually_acked }

\* ReliableUDPClient.__init__
P1ClientInit ==
    [pc |-> "request",
     attempt |-> 0,
     received_packets |-> <<>>,
     acked_packets |-> {},
     consecutive_timeouts |-> 0,
     eof_received |-> FALSE]

\* receive_file: self.received_packets[seq_num] = data; self.acked_packets.add
StorePacket(C, seq_num, data) ==
    [C EXCEPT !.received_packets =
                 [k \in DOMAIN C.received_packets \cup {seq_num} |->
                    IF k = seq_num THEN data ELSE C.received_packets[k]],
              !.acked_packets = C.acked_packets \cup {seq_num}]

\* write_file: the chunks of received_packets in ascending order of seq
RECURSIVE ConcatSorted(_, _)
ConcatSorted(rp, keys) ==
    IF keys = {} THEN <<>>
    ELSE BCat(rp[SetMin(keys)], ConcatSorted(rp, keys \ {SetMin(keys)}))

(***************************************************************************)
(* State                                                                   *)
(***************************************************************************)
VARIABLES
    file,           \* data.txt (ReliableServer._file)
    lossless,       \* the channel of this run: TRUE = in order and without loss
    srv,            \* the sender state guarded by _lock
    next_seq,       \* ReliableServer.next_seq (written by the writer only)
    stop_event,     \* ReliableServer.stop_event
    w_pc,           \* position of the writer (run / _transfer_loop)
    w_seq,          \* writer locals: offset / seq (0 when dead)
    w_payload,      \* writer locals: chunk / payload (empty when dead)
    w_eof_sent,     \* EOF packets sent so far
    r_pc,           \* position of the ACK reader thread (_ack_reader)
    r_seq,          \* reader local: fast_seq (-1 when None or dead)
    r_payload,      \* reader local: payload (empty when dead)
    net_down,       \* datagrams on their way to the receiver
    net_up,         \* datagrams on their way to the sender
    c_pc,           \* position of the receiver (start)
    c_attempt,      \* handshake attempt (0 once the handshake has returned True)
    buffered,       \* Receiver.buffered
    next_expected,  \* Receiver.next_expected
    saw_eof,        \* Receiver.saw_eof
    eof_seq,        \* Receiver.eof_seq (-1 for None)
    consecutive_timeouts,
    output,         \* bytes written to the output file so far
    last_cum,       \* history: cumulative value of the last ACK emitted (-1: none)
    n_srv_to,       \* retransmission-timer expiries so far
    n_cli_to,       \* receive timeouts of the download so far
    reduced,        \* history: _on_timeout or _on_fast_retransmit has run
    hist,           \* history: sends per segment, congestion events, drops
    p1_server,      \* part 1: the state of ReliableUDPServer and its position
    p1_client,      \* part 1: the state of ReliableUDPClient and its position
    p1_output       \* part 1: the bytes write_file has written

vars == <<file, lossless, srv, next_seq, stop_event, w_pc, w_seq, w_payload,
          w_eof_sent, r_pc, r_seq, r_payload, net_down, net_up, c_pc,
          c_attempt, buffered, next_expected, saw_eof, eof_seq,
          consecutive_timeouts, output, last_cum,
          n_srv_to, n_cli_to, reduced, hist, p1_server, p1_client, p1_output>>

part1Vars == <<p1_server, p1_client, p1_output>>

\* what a run never changes: data.txt and the kind of channel
envVars == <<file, lossless>>

senderVars == <<srv, reduced, hist, next_seq, stop_event, w_pc, w_seq, w_payload,
                w_eof_sent, r_pc, r_seq, r_payload>>
receiverVars == <<c_pc, c_attempt, buffered, next_expected, saw_eof, eof_seq,
                  consecutive_timeouts, output, last_cum>>
writerVars == <<next_seq, w_pc, w_seq, w_payload, w_eof_sent>>
readerVars == <<r_pc, r_seq, r_payload>>

\* b'D', the request datagram of Receiver._run_handshake
REQUEST == [kind |-> "req", len |-> 1]

\* RTT samples (now - first_sent, microseconds) the run may measure
RttSamples == {40000}

\* The history of a run: wire[seq] is the number of datagrams carrying the
\* segment seq that sock.sendto has put on the wire, fr_events and to_events
\* the calls of _on_fast_retransmit and _on_timeout, drops the datagrams the
\* channel has dropped, fr_base the value of base at the last call of
\* _on_fast_retransmit (-1: none yet), left the entries (with their
\* last_sent) that the last pass found expired and did not send again, and
\* ep_events the calls of _on_timeout made for the entries that expired
\* together (the last two on the lossy channel only)
HistInit ==
    [wire |-> <<>>, fr_events |-> 0, to_events |-> 0, drops |-> 0,
     fr_base |-> NoneVal, left |-> {}, ep_events |-> 0]

\* one more datagram carrying the segment seq is on the wire
Sent(h, seq) ==
    [h EXCEPT !.wire = [k \in DOMAIN h.wire \cup {seq} |->
        IF k = seq
        THEN (IF seq \in DOMAIN h.wire THEN Min(h.wire[seq] + 1, HistCap) ELSE 1)
        ELSE h.wire[k]]]

\* part 2 at the start of the two programs
Part2Init ==
    /\ srv = ServerInit
    /\ next_seq = 0
    /\ stop_event = FALSE
    /\ w_pc = "wait_request"
    /\ w_seq = 0
    /\ w_payload = <<>>
    /\ w_eof_sent = 0
    /\ r_pc = "not_started"
    /\ r_seq = NoneVal
    /\ r_payload = <<>>
    /\ net_down = {}
    /\ net_up = {}
    /\ c_pc = "handshake"
    /\ c_attempt = 0
    /\ buffered = <<>>
    /\ next_expected = 0
    /\ saw_eof = FALSE
    /\ eof_seq = NoneVal
    /\ consecutive_timeouts = 0
    /\ output = <<>>
    /\ last_cum = NoneVal
    /\ n_srv_to = 0
    /\ n_cli_to = 0
    /\ reduced = FALSE
    /\ hist = HistInit

\* part 1 at the start of the two programs, the window being sws
Part1Init(sws) ==
    /\ p1_server = P1ServerInit(sws)
    /\ p1_client = P1ClientInit
    /\ p1_output = <<>>

Init ==
    /\ file \in Files
    /\ lossless = FALSE
    /\ Part2Init
    /\ Part1Init(DATA_SIZE)

Size == BLen(file)

(***************************************************************************)
(* The channel.  net_down and net_up hold the datagrams in flight.  A      *)
(* receive takes any of them (reordering); a datagram never taken is a     *)
(* lost one; a datagram sent again after it was taken arrives twice.  A    *)
(* datagram for an endpoint that receives no more is dropped.              *)
(* On a lossless channel every datagram carries the number n of its place  *)
(* in the order of the sends, the datagram taken is the oldest one, and a  *)
(* timer runs out only while no datagram is on its way: delivery is fast   *)
(* against the timers (0.2 s and more).                                    *)
(***************************************************************************)
Recv(net, pkt) == net \ {pkt}

\* the datagram pkt with the number n of its send
Stamped(pkt, n) == [k \in DOMAIN pkt \cup {"n"} |-> IF k = "n" THEN n ELSE pkt[k]]

\* the number of the next send into net (0 on a channel that keeps no order)
NextStamp(net) ==
    IF lossless /\ net # {}
    THEN 1 + (CHOOSE m \in { q.n : q \in net } : \A q \in net : q.n <= m)
    ELSE 0

\* recvfrom may return pkt: on a lossless channel, the oldest datagram only
Deliverable(net, pkt) == lossless => \A q \in net : pkt.n <= q.n

\* a timer may run out: on a lossless channel, only while nothing is in flight
TimerMayExpire == lossless => (net_down = {} /\ net_up = {})

\* the receiver has left start(): its socket is closed
ReceiverGone(pc) == pc \in {"success", "failed"}

\* the sender process has returned from run(), or its reader has ended
SenderGone == w_pc = "no_request" \/ r_pc = "stopped"

\* The sender state of a lossless run, where the timers may run out without
\* end, kept in a finite form that the code cannot tell from the original:
\* the clock readings of the inflight table replaced by their ranks (the code
\* compares them with each other and with now only), and a duplicate-ACK
\* counter above MaxDupCount replaced by MaxDupCount.
Canon(S) ==
    IF ~lossless THEN S
    ELSE LET T == { S.inflight[k].last_sent : k \in DOMAIN S.inflight }
                  \cup { S.inflight[k].first_sent : k \in DOMAIN S.inflight }
             Rank(x) == Cardinality({ u \in T : u <= x })
         IN [S EXCEPT
               !.inflight = [k \in DOMAIN S.inflight |->
                   [payload |-> S.inflight[k].payload,
                    last_sent |-> Rank(S.inflight[k].last_sent),
                    first_sent |-> Rank(S.inflight[k].first_sent)]],
               !.dup_count = Min(S.dup_count, MaxDupCount)]

\* sock.sendto of the sender
SendDown(pkt) ==
    IF ReceiverGone(c_pc) THEN net_down
    ELSE net_down \cup {Stamped(pkt, NextStamp(net_down))}

\* sock.sendto of the receiver
SendUp(net, pkt) ==
    IF SenderGone THEN net ELSE net \cup {Stamped(pkt, NextStamp(net))}

(***************************************************************************)
(* Sender, writer: ReliableServer.run and _transfer_loop                   *)
(***************************************************************************)
\* _wait_for_request: a datagram of at least one byte arrives; run() then
\* starts the ACK reader thread and enters the loop
WaitForRequest ==
    /\ w_pc = "wait_request"
    /\ \E pkt \in net_up :
         /\ pkt.kind = "req" /\ pkt.len >= 1
         /\ Deliverable(net_up, pkt)
         /\ net_up' = Recv(net_up, pkt)
    /\ w_pc' = "fill"
    /\ r_pc' = "recv"
    /\ UNCHANGED <<part1Vars, envVars, reduced, hist, srv, next_seq, stop_event, w_seq, w_payload,
                   w_eof_sent, r_seq, r_payload, net_down, receiverVars,
                   n_srv_to, n_cli_to>>

\* _wait_for_request: socket.timeout after 5 s; run() returns
WaitForRequestTimeout ==
    /\ w_pc = "wait_request"
    /\ TimerMayExpire
    /\ w_pc' = "no_request"
    /\ net_up' = {}
    /\ UNCHANGED <<part1Vars, envVars, reduced, hist, srv, next_seq, stop_event, w_seq, w_payload,
                   w_eof_sent, readerVars, net_down, receiverVars,
                   n_srv_to, n_cli_to>>

\* step 1 of the loop: the test of the inner while, _can_transmit, sendto
FillWindow ==
    /\ w_pc = "fill"
    /\ LET offset == next_seq
           to_send == Min(Size - offset, DATA_PAYLOAD)
           chunk == BSlice(file, offset, offset + to_send)
       IN IF next_seq < Size /\ CanTransmit(srv, to_send)
          THEN /\ net_down' = SendDown(BuildPacket(offset, chunk, FALSE))
               /\ w_seq' = offset
               /\ w_payload' = chunk
               /\ w_pc' = "record"
               /\ hist' = Sent(hist, offset)
          ELSE /\ w_pc' = "timers"
               /\ UNCHANGED <<net_down, w_seq, w_payload, hist>>
    /\ UNCHANGED <<part1Vars, envVars, reduced, srv, next_seq, stop_event, w_eof_sent, readerVars,
                   net_up, receiverVars, n_srv_to, n_cli_to>>

\* step 1, continued: _record_transmit(offset, chunk)
RecordNew ==
    /\ w_pc = "record"
    /\ srv' = Canon(RecordTransmit(srv, w_seq, w_payload, Now(srv)))
    /\ w_pc' = "advance"
    /\ UNCHANGED <<part1Vars, envVars, reduced, hist, next_seq, stop_event, w_seq, w_payload, w_eof_sent,
                   readerVars, net_down, net_up, receiverVars,
                   n_srv_to, n_cli_to>>

\* step 1, continued: self.next_seq += len(chunk)
AdvanceNextSeq ==
    /\ w_pc = "advance"
    /\ next_seq' = next_seq + BLen(w_payload)
    /\ w_pc' = "fill"
    /\ w_seq' = 0
    /\ w_payload' = <<>>
    /\ UNCHANGED <<part1Vars, envVars, reduced, hist, srv, stop_event, w_eof_sent,
                   readerVars, net_down, net_up, receiverVars,
                   n_srv_to, n_cli_to>>

\* the expired entries a pass leaves as they are (it sends the lowest only)
StillExpired(seqs) == { <<s, srv.inflight[s].last_sent>> : s \in seqs }

\* the pass of the loop that follows a pass with expired entries, 0.1 ms
\* later: the entries that pass left, not sent since, are still expired
SameInstant(expired) == StillExpired(expired) \subseteq hist.left

\* step 2: expired = self._detect_timeouts(), for a run in which the timers
\* of the entries last sent before cutoff have run out; seq = min(expired)
DetectExpired ==
    /\ w_pc = "timers"
    /\ \E cutoff \in 0..Now(srv) :
         LET expired == DetectTimeouts(srv, cutoff)
         IN IF expired # {}
            THEN /\ TimerMayExpire
                 /\ lossless \/ n_srv_to < MaxSrvTimeouts \/ SameInstant(expired)
                 /\ n_srv_to' = IF lossless \/ SameInstant(expired)
                                 THEN n_srv_to ELSE n_srv_to + 1
                 /\ hist' = IF lossless THEN hist
                            ELSE [hist EXCEPT
                                    !.left = StillExpired(expired \ {SetMin(expired)}),
                                    !.ep_events = IF SameInstant(expired) THEN @ ELSE 0]
                 /\ w_seq' = SetMin(expired)
                 /\ w_pc' = "on_timeout"
            ELSE /\ cutoff = 0
                 /\ w_pc' = "check"
                 /\ UNCHANGED <<n_srv_to, w_seq, hist>>
    /\ UNCHANGED <<part1Vars, envVars, reduced, srv, next_seq, stop_event, w_payload, w_eof_sent,
                   readerVars, net_down, net_up, receiverVars, n_cli_to>>

\* step 2, continued: self._on_timeout()
TimeoutEvent ==
    /\ w_pc = "on_timeout"
    /\ srv' = OnTimeout(srv)
    /\ reduced' = TRUE
    /\ hist' = [hist EXCEPT !.to_events = Min(@ + 1, HistCap),
                            !.ep_events = IF lossless THEN @ ELSE Min(@ + 1, HistCap)]
    /\ w_pc' = "get_payload"
    /\ UNCHANGED <<part1Vars, envVars, next_seq, stop_event, w_seq, w_payload, w_eof_sent,
                   readerVars, net_down, net_up, receiverVars,
                   n_srv_to, n_cli_to>>

\* step 2, continued: payload = self._get_payload(seq), and the sendto of
\* the retransmission when there is one
RetransmitSend ==
    /\ w_pc = "get_payload"
    /\ IF HasPayload(srv, w_seq)
       THEN /\ w_payload' = GetPayload(srv, w_seq)
            /\ net_down' = SendDown(BuildPacket(w_seq, GetPayload(srv, w_seq), FALSE))
            /\ w_pc' = "retx_record"
            /\ w_seq' = w_seq
            /\ hist' = Sent(hist, w_seq)
       ELSE /\ w_pc' = "check"
            /\ w_seq' = 0
            /\ UNCHANGED <<w_payload, net_down, hist>>
    /\ UNCHANGED <<part1Vars, envVars, reduced, srv, next_seq, stop_event, w_eof_sent,
                   readerVars, net_up, receiverVars, n_srv_to, n_cli_to>>

\* step 2, continued: self._record_transmit(seq, payload)
RetransmitRecord ==
    /\ w_pc = "retx_record"
    /\ srv' = Canon(RecordTransmit(srv, w_seq, w_payload, Now(srv)))
    /\ w_pc' = "check"
    /\ w_seq' = 0
    /\ w_payload' = <<>>
    /\ UNCHANGED <<part1Vars, envVars, reduced, hist, next_seq, stop_event, w_eof_sent,
                   readerVars, net_down, net_up, receiverVars,
                   n_srv_to, n_cli_to>>

\* step 3: the completion test, then the sleep and the next pass
CheckDone ==
    /\ w_pc = "check"
    /\ w_pc' = IF next_seq >= Size /\ AllAcked(srv) THEN "eof" ELSE "fill"
    /\ UNCHANGED <<part1Vars, envVars, reduced, hist, srv, next_seq, stop_event, w_seq, w_payload,
                   w_eof_sent, readerVars, net_down, net_up, receiverVars,
                   n_srv_to, n_cli_to>>

\* the EOF marker: the loop that sends the same datagram EOF_SENDS times
\* (the channel holds a datagram once, however often it was sent)
SendEof ==
    /\ w_pc = "eof"
    /\ net_down' = SendDown(BuildPacket(Size, <<>>, TRUE))
    /\ w_eof_sent' = EOF_SENDS
    /\ w_pc' = "finally"
    /\ UNCHANGED <<part1Vars, envVars, reduced, hist, srv, next_seq, stop_event, w_seq, w_payload,
                   readerVars, net_up, receiverVars, n_srv_to, n_cli_to>>

\* finally: self.stop_event.set()
SetStop ==
    /\ w_pc = "finally"
    /\ stop_event' = TRUE
    /\ w_pc' = "done"
    /\ UNCHANGED <<part1Vars, envVars, reduced, hist, srv, next_seq, w_seq, w_payload, w_eof_sent,
                   readerVars, net_down, net_up, receiverVars, n_srv_to, n_cli_to>>

(***************************************************************************)
(* Sender, ACK reader thread: ReliableServer._ack_reader                   *)
(***************************************************************************)
\* recvfrom, _decode_ack and _mark_ack of one ACK datagram
ReaderAck ==
    /\ r_pc = "recv"
    /\ ~stop_event
    /\ \E pkt \in net_up, sample \in RttSamples :
         /\ pkt.kind = "ack"
         /\ Deliverable(net_up, pkt)
         /\ net_up' = Recv(net_up, pkt)
         /\ LET a == DecodeAck(pkt)
                res == MarkAck(srv, a.ack, a.sack, sample)
            IN /\ srv' = Canon(res.S)
               /\ reduced' = (reduced \/ res.event)
               /\ hist' = IF res.event
                          THEN [hist EXCEPT !.fr_events = Min(@ + 1, HistCap),
                                            !.fr_base = srv.base]
                          ELSE hist
               /\ r_seq' = res.fast_seq
               /\ r_pc' = IF res.fast_seq # NoneVal THEN "fr_payload" ELSE "recv"
    /\ UNCHANGED <<part1Vars, envVars, next_seq, stop_event, writerVars, r_payload,
                   net_down, receiverVars, n_srv_to, n_cli_to>>

\* recvfrom of a datagram shorter than 4 bytes (a repeated request): continue
ReaderIgnore ==
    /\ r_pc = "recv"
    /\ ~stop_event
    /\ \E pkt \in net_up :
         /\ pkt.kind = "req" /\ pkt.len < 4
         /\ Deliverable(net_up, pkt)
         /\ net_up' = Recv(net_up, pkt)
    /\ UNCHANGED <<part1Vars, envVars, senderVars, net_down, receiverVars,
                   n_srv_to, n_cli_to>>

\* fast retransmit: payload = self._get_payload(fast_seq) and the sendto
ReaderFastSend ==
    /\ r_pc = "fr_payload"
    /\ IF HasPayload(srv, r_seq)
       THEN /\ r_payload' = GetPayload(srv, r_seq)
            /\ net_down' = SendDown(BuildPacket(r_seq, GetPayload(srv, r_seq), FALSE))
            /\ r_pc' = "fr_record"
            /\ r_seq' = r_seq
            /\ hist' = Sent(hist, r_seq)
       ELSE /\ r_pc' = "recv"
            /\ r_seq' = NoneVal
            /\ UNCHANGED <<r_payload, net_down, hist>>
    /\ UNCHANGED <<part1Vars, envVars, reduced, srv, next_seq, stop_event, writerVars,
                   net_up, receiverVars, n_srv_to, n_cli_to>>

\* fast retransmit: self._record_transmit(fast_seq, payload)
ReaderFastRecord ==
    /\ r_pc = "fr_record"
    /\ srv' = Canon(RecordTransmit(srv, r_seq, r_payload, Now(srv)))
    /\ r_pc' = "recv"
    /\ r_seq' = NoneVal
    /\ r_payload' = <<>>
    /\ UNCHANGED <<part1Vars, envVars, reduced, hist, next_seq, stop_event, writerVars,
                   net_down, net_up, receiverVars, n_srv_to, n_cli_to>>

\* the test of the while: the thread ends once stop_event is set
ReaderStop ==
    /\ r_pc = "recv"
    /\ stop_event
    /\ r_pc' = "stopped"
    /\ net_up' = {}
    /\ UNCHANGED <<part1Vars, envVars, reduced, hist, srv, next_seq, stop_event, writerVars, r_seq,
                   r_payload, net_down, receiverVars,
                   n_srv_to, n_cli_to>>

(***************************************************************************)
(* Receiver (part 2): Receiver.start                                       *)
(***************************************************************************)
\* Receiver._is_complete
IsComplete(saw, eseq, ne) == saw /\ eseq = ne

\* Receiver._send_ack, on the state the handler leaves
SendAck(buf, ne) == ComposeAck(ne, GetSackBlocks(buf))

\* Receiver._process_data_packet: the reassembly state after the packet
ProcessDataPacket(pkt, buf, saw, eseq) ==
    LET p == ParsePacket(pkt)
    IN IF p.seq = NoneVal THEN [buffered |-> buf, saw_eof |-> saw, eof_seq |-> eseq, ack |-> FALSE]
       ELSE IF p.eof THEN [buffered |-> buf, saw_eof |-> TRUE, eof_seq |-> p.seq, ack |-> TRUE]
       ELSE IF p.data # <<>>
            THEN [buffered |-> SetDefault(buf, p.seq, p.data), saw_eof |-> saw,
                  eof_seq |-> eseq, ack |-> TRUE]
       ELSE [buffered |-> buf, saw_eof |-> saw, eof_seq |-> eseq, ack |-> TRUE]

\* _handle_packet_recv that writes a segment lying beyond a gap at once
HandlePacketRecvGap(pkt, buf, ne, saw, eseq, out) ==
    LET p == ParsePacket(pkt)
        same == [buffered |-> buf, next_expected |-> ne, output |-> out]
    IN IF p.seq = NoneVal
       THEN [st |-> same, saw_eof |-> saw, eof_seq |-> eseq, ack |-> FALSE]
       ELSE IF p.eof
       THEN [st |-> same, saw_eof |-> TRUE, eof_seq |-> p.seq, ack |-> TRUE]
       ELSE IF p.data # <<>> /\ p.seq >= ne
       THEN [st |-> DrainInorderBuffer(buf, p.seq + BLen(p.data), BCat(out, p.data)),
             saw_eof |-> saw, eof_seq |-> eseq, ack |-> TRUE]
       ELSE [st |-> same, saw_eof |-> saw, eof_seq |-> eseq, ack |-> TRUE]

\* _handle_packet_recv that restarts from an old segment that arrives again
HandlePacketRecvRewind(pkt, buf, ne, saw, eseq, out) ==
    LET p == ParsePacket(pkt)
        same == [buffered |-> buf, next_expected |-> ne, output |-> out]
    IN IF p.seq = NoneVal
       THEN [st |-> same, saw_eof |-> saw, eof_seq |-> eseq, ack |-> FALSE]
       ELSE IF p.eof
       THEN [st |-> same, saw_eof |-> TRUE, eof_seq |-> p.seq, ack |-> TRUE]
       ELSE IF p.data # <<>> /\ p.seq <= ne
       THEN [st |-> DrainInorderBuffer(buf, p.seq + BLen(p.data),
                                       BCat(BTake(out, p.seq), p.data)),
             saw_eof |-> saw, eof_seq |-> eseq, ack |-> TRUE]
       ELSE IF p.data # <<>> /\ p.seq > ne
       THEN [st |-> [same EXCEPT !.buffered = SetDefault(buf, p.seq, p.data)],
             saw_eof |-> saw, eof_seq |-> eseq, ack |-> TRUE]
       ELSE [st |-> same, saw_eof |-> saw, eof_seq |-> eseq, ack |-> TRUE]

\* Receiver._handle_packet_recv: the reassembly state after the packet
HandlePacketRecv(pkt, buf, ne, saw, eseq, out) ==
    LET p == ParsePacket(pkt)
        same == [buffered |-> buf, next_expected |-> ne, output |-> out]
    IN IF p.seq = NoneVal
       THEN [st |-> same, saw_eof |-> saw, eof_seq |-> eseq, ack |-> FALSE]
       ELSE IF p.eof
       THEN [st |-> same, saw_eof |-> TRUE, eof_seq |-> p.seq, ack |-> TRUE]
       ELSE IF p.data # <<>> /\ p.seq = ne
       THEN [st |-> DrainInorderBuffer(buf, ne + BLen(p.data), BCat(out, p.data)),
             saw_eof |-> saw, eof_seq |-> eseq, ack |-> TRUE]
       ELSE IF p.data # <<>> /\ p.seq > ne
       THEN [st |-> [same EXCEPT !.buffered = SetDefault(buf, p.seq, p.data)],
             saw_eof |-> saw, eof_seq |-> eseq, ack |-> TRUE]
       ELSE [st |-> same, saw_eof |-> saw, eof_seq |-> eseq, ack |-> TRUE]

\* _run_handshake: sendto(b'D') of attempt c_attempt
HandshakeSend ==
    /\ c_pc = "handshake"
    /\ c_attempt < HANDSHAKE_ATTEMPTS
    /\ net_up' = SendUp(net_up, REQUEST)
    /\ c_pc' = "hs_wait"
    /\ UNCHANGED <<part1Vars, envVars, senderVars, net_down, c_attempt, buffered, next_expected,
                   saw_eof, eof_seq, consecutive_timeouts, output, last_cum,
                   n_srv_to, n_cli_to>>

\* _run_handshake: the first packet arrives and goes to _process_data_packet
HandshakeRecv ==
    /\ c_pc = "hs_wait"
    /\ \E pkt \in net_down :
         /\ Deliverable(net_down, pkt)
         /\ net_down' = Recv(net_down, pkt)
         /\ LET res == ProcessDataPacket(pkt, buffered, saw_eof, eof_seq)
            IN /\ buffered' = res.buffered
               /\ saw_eof' = res.saw_eof
               /\ eof_seq' = res.eof_seq
               /\ IF res.ack
                  THEN /\ net_up' = SendUp(net_up, SendAck(res.buffered, next_expected))
                       /\ last_cum' = next_expected
                  ELSE UNCHANGED <<net_up, last_cum>>
    /\ c_pc' = "open"
    /\ c_attempt' = 0
    /\ UNCHANGED <<part1Vars, envVars, senderVars, next_expected,
                   consecutive_timeouts, output, n_srv_to, n_cli_to>>

\* _run_handshake: socket.timeout after 2 s; the next attempt, or failure
HandshakeTimeout ==
    /\ c_pc = "hs_wait"
    /\ TimerMayExpire
    /\ c_attempt' = c_attempt + 1
    /\ c_pc' = IF c_attempt + 1 >= HANDSHAKE_ATTEMPTS THEN "failed" ELSE "handshake"
    /\ net_down' = IF c_attempt + 1 >= HANDSHAKE_ATTEMPTS THEN {} ELSE net_down
    /\ UNCHANGED <<part1Vars, envVars, senderVars, net_up, buffered, next_expected,
                   saw_eof, eof_seq, consecutive_timeouts, output, last_cum,
                   n_srv_to, n_cli_to>>

\* _run_download: open(output_file, 'wb'), _drain_inorder_buffer, and the
\* first test of the while
DownloadOpen ==
    /\ c_pc = "open"
    /\ LET st == DrainInorderBuffer(buffered, next_expected, <<>>)
       IN /\ buffered' = st.buffered
          /\ next_expected' = st.next_expected
          /\ output' = st.output
          /\ c_pc' = IF IsComplete(saw_eof, eof_seq, st.next_expected)
                     THEN "success" ELSE "download"
          /\ net_down' = IF IsComplete(saw_eof, eof_seq, st.next_expected)
                         THEN {} ELSE net_down
    /\ UNCHANGED <<part1Vars, envVars, senderVars, net_up, c_attempt, saw_eof, eof_seq,
                   consecutive_timeouts, last_cum, n_srv_to, n_cli_to>>

\* _run_download: recvfrom, _handle_packet_recv, and the test of the while
DownloadRecv ==
    /\ c_pc = "download"
    /\ \E pkt \in net_down :
         /\ Deliverable(net_down, pkt)
         /\ LET res == HandlePacketRecv(pkt, buffered, next_expected, saw_eof,
                                        eof_seq, output)
            IN /\ buffered' = res.st.buffered
               /\ next_expected' = res.st.next_expected
               /\ output' = res.st.output
               /\ saw_eof' = res.saw_eof
               /\ eof_seq' = res.eof_seq
               /\ IF res.ack
                  THEN /\ net_up' = SendUp(net_up,
                              SendAck(res.st.buffered, res.st.next_expected))
                       /\ last_cum' = res.st.next_expected
                  ELSE UNCHANGED <<net_up, last_cum>>
               /\ c_pc' = IF IsComplete(res.saw_eof, res.eof_seq, res.st.next_expected)
                          THEN "success" ELSE "download"
               /\ net_down' = IF IsComplete(res.saw_eof, res.eof_seq, res.st.next_expected)
                              THEN {} ELSE Recv(net_down, pkt)
    /\ consecutive_timeouts' = 0
    /\ UNCHANGED <<part1Vars, envVars, senderVars, c_attempt, n_srv_to, n_cli_to>>

\* _run_download: socket.timeout after 1 s, _handle_timeout, and the abort
DownloadTimeout ==
    /\ c_pc = "download"
    /\ TimerMayExpire
    /\ lossless \/ SenderGone \/ n_cli_to < MaxCliTimeouts
    /\ n_cli_to' = IF lossless \/ n_cli_to >= MaxCliTimeouts
                   THEN n_cli_to ELSE n_cli_to + 1
    /\ consecutive_timeouts' = consecutive_timeouts + 1
    /\ net_up' = SendUp(net_up, SendAck(buffered, next_expected))
    /\ last_cum' = next_expected
    /\ c_pc' = IF consecutive_timeouts + 1 > MAX_CONSECUTIVE_TIMEOUTS
               THEN "failed" ELSE "download"
    /\ net_down' = IF consecutive_timeouts + 1 > MAX_CONSECUTIVE_TIMEOUTS
                   THEN {} ELSE net_down
    /\ UNCHANGED <<part1Vars, envVars, senderVars, c_attempt, buffered, next_expected,
                   saw_eof, eof_seq, output, n_srv_to>>

(***************************************************************************)
(* The system of part 2                                                    *)
(***************************************************************************)
Writer ==
    \/ WaitForRequest \/ WaitForRequestTimeout
    \/ FillWindow \/ RecordNew \/ AdvanceNextSeq
    \/ DetectExpired \/ TimeoutEvent \/ RetransmitSend \/ RetransmitRecord
    \/ CheckDone \/ SendEof \/ SetStop

Reader == ReaderAck \/ ReaderIgnore \/ ReaderFastSend \/ ReaderFastRecord \/ ReaderStop

Receiver ==
    \/ HandshakeSend \/ HandshakeRecv \/ HandshakeTimeout
    \/ DownloadOpen \/ DownloadRecv \/ DownloadTimeout

\* main: server.run() returns after 'No client request received' as it does
\* after the transfer, and the interpreter ends with status 0; sys.exit(1)
\* is the usage error and the exceptions only
ServerExitCode(pc) ==
    IF pc \in {"no_request", "done"} THEN 0 ELSE NoneVal

Next == Writer \/ Reader \/ Receiver

Spec == Init /\ [][Next]_vars

(***************************************************************************)
(* Part 2 from the middle of a transfer of five segments: segments 0 and   *)
(* 1180 are written and acknowledged, ACK(2360) has opened the window to   *)
(* three segments, and the segments 2360, 3540 and 4720 are on their way.  *)
(* The receiver's receive timeouts of the run are spent: it times out      *)
(* again only once the sender has gone.                                    *)
(***************************************************************************)
LongFile ==
    Fill(1, DATA_PAYLOAD) \o Fill(2, DATA_PAYLOAD) \o Fill(3, DATA_PAYLOAD)
        \o Fill(4, DATA_PAYLOAD) \o Fill(5, 100)

\* the sender after its sends of 0, 1180 and 2360, the ACKs 1180 and 2360,
\* and its sends of 3540 and 4720
MidTransfer ==
    LET rec(S, seq) == RecordTransmit(S, seq, BSlice(LongFile, seq, seq + DATA_PAYLOAD), Now(S))
        A1 == rec(ServerInit, 0)
        A2 == MarkAck(A1, DATA_PAYLOAD, <<>>, 40000).S
        A3 == rec(rec(A2, DATA_PAYLOAD), 2 * DATA_PAYLOAD)
        A4 == MarkAck(A3, 2 * DATA_PAYLOAD, <<>>, 40000).S
    IN rec(rec(A4, 3 * DATA_PAYLOAD), 4 * DATA_PAYLOAD)

InitM ==
    /\ file = LongFile
    /\ lossless = FALSE
    /\ srv = MidTransfer
    /\ next_seq = BLen(LongFile)
    /\ stop_event = FALSE
    /\ w_pc = "fill"
    /\ w_seq = 0
    /\ w_payload = <<>>
    /\ w_eof_sent = 0
    /\ r_pc = "recv"
    /\ r_seq = NoneVal
    /\ r_payload = <<>>
    /\ net_down = { Stamped(BuildPacket(seq, MidTransfer.inflight[seq].payload, FALSE), 0) :
                       seq \in DOMAIN MidTransfer.inflight }
    /\ net_up = {}
    /\ c_pc = "download"
    /\ c_attempt = 0
    /\ buffered = <<>>
    /\ next_expected = 2 * DATA_PAYLOAD
    /\ saw_eof = FALSE
    /\ eof_seq = NoneVal
    /\ consecutive_timeouts = 0
    /\ output = BTake(LongFile, 2 * DATA_PAYLOAD)
    /\ last_cum = 2 * DATA_PAYLOAD
    /\ n_srv_to = 0
    /\ n_cli_to = MaxCliTimeouts
    /\ reduced = FALSE
    /\ hist = Sent(Sent(Sent(Sent(Sent(HistInit, 0), DATA_PAYLOAD), 2 * DATA_PAYLOAD),
                       3 * DATA_PAYLOAD), 4 * DATA_PAYLOAD)
    /\ Part1Init(DATA_SIZE)

NextM ==
    \/ FillWindow
    \/ DetectExpired \/ TimeoutEvent \/ RetransmitSend \/ RetransmitRecord
    \/ CheckDone \/ SendEof \/ SetStop
    \/ ReaderAck \/ ReaderFastSend \/ ReaderFastRecord \/ ReaderStop
    \/ DownloadRecv \/ DownloadTimeout

SpecM == InitM /\ [][NextM]_vars

(***************************************************************************)
(* Part 2 over a lossless channel that drops at most one datagram: a data  *)
(* segment that is neither the first nor the last of the file, in its      *)
(* first transmission, while it is the base segment of the sender.         *)
(***************************************************************************)
\* the channel drops the datagram that carries the base segment
DropBase ==
    /\ lossless
    /\ hist.drops = 0
    /\ \E pkt \in net_down :
         LET p == ParsePacket(pkt)
         IN /\ ~p.eof
            /\ p.seq = srv.base
            /\ p.seq > 0
            /\ p.seq + BLen(p.data) < Size
            /\ p.seq \in DOMAIN hist.wire
            /\ hist.wire[p.seq] = 1
            /\ net_down' = net_down \ {pkt}
    /\ hist' = [hist EXCEPT !.drops = 1]
    /\ UNCHANGED <<part1Vars, envVars, reduced, srv, next_seq, stop_event,
                   writerVars, readerVars, net_up, receiverVars,
                   n_srv_to, n_cli_to>>

InitD ==
    /\ file \in Files
    /\ lossless = TRUE
    /\ Part2Init
    /\ Part1Init(DATA_SIZE)

NextD == Next \/ DropBase

SpecD == InitD /\ [][NextD]_vars

\* a timer of the sender that can run out does run out
TimerExpiry == DetectExpired /\ w_pc' = "on_timeout"

\* the writer thread, the ACK reader thread and the receiver each keep
\* running, and time passes
FairD ==
    /\ WF_vars(Writer)
    /\ WF_vars(Reader)
    /\ WF_vars(Receiver)
    /\ SF_vars(TimerExpiry)

\* Part 2 over the lossless channel with nothing dropped, for the files of
\* at most one chunk and a marker-sized tail, with the threads kept running.
SmallFiles == { f \in Files : BLen(f) <= DATA_PAYLOAD + BLen(EOF_MARKER) }

InitL ==
    /\ file \in SmallFiles
    /\ lossless = TRUE
    /\ Part2Init
    /\ Part1Init(DATA_SIZE)

SpecL == InitL /\ [][Next]_vars

SpecLFair == SpecL /\ FairD

(***************************************************************************)
(* The congestion methods of ReliableServer on their own: _on_timeout,     *)
(* _on_fast_retransmit and _on_new_ack, each applied once to a sender      *)
(* whose congestion state is one of CongestionStates.                      *)
(***************************************************************************)
\* values of self.cwnd (in 1/CwndScale of a byte): from MSS to the cap, whole
\* and fractional
CwndValues ==
    { MSS * CwndScale, MSS * CwndScale + 7, 3 * MSS * CwndScale,
      5 * MSS * CwndScale, 100 * MSS * CwndScale + 3,
      (CWND_CAP_MSS - 1) * MSS * CwndScale, CWND_CAP_MSS * MSS * CwndScale }

\* values of self.ssthresh: from its floor to its initial value
SsthreshValues ==
    { 2 * MSS * CwndScale, 2 * MSS * CwndScale + MSS * (CwndScale \div 2),
      50 * MSS * CwndScale, INIT_SSTHRESH_MSS * MSS * CwndScale }

\* the sender mid-transfer: slow start holds exactly while cwnd < ssthresh
CongestionStates ==
    { [ServerInit EXCEPT !.cwnd = c, !.ssthresh = s, !.in_slow_start = (c < s),
                         !.inflight = infl, !.base = b, !.last_ack = b,
                         !.dup_count = d, !.sack_blocks = sb] :
        c \in CwndValues, s \in SsthreshValues,
        infl \in { <<>>,
                   (DATA_PAYLOAD :> [payload |-> Fill(2, DATA_PAYLOAD),
                                     last_sent |-> 1, first_sent |-> 1]) },
        b \in {DATA_PAYLOAD}, d \in {0, 2},
        sb \in { <<>>, << <<2 * DATA_PAYLOAD, 3 * DATA_PAYLOAD>> >> } }

\* bytes_acked of one call of _on_new_ack
AckedBytes == {1, 100, DATA_PAYLOAD, 2 * DATA_PAYLOAD}

InitC ==
    /\ file = Fill(1, DATA_PAYLOAD) \o Fill(2, DATA_PAYLOAD) \o Fill(3, DATA_PAYLOAD)
    /\ lossless = FALSE
    /\ srv \in CongestionStates
    /\ next_seq = 2 * DATA_PAYLOAD
    /\ stop_event = FALSE
    /\ w_pc = "cc"
    /\ w_seq = 0
    /\ w_payload = <<>>
    /\ w_eof_sent = 0
    /\ r_pc = "recv"
    /\ r_seq = NoneVal
    /\ r_payload = <<>>
    /\ net_down = {}
    /\ net_up = {}
    /\ c_pc = "download"
    /\ c_attempt = 0
    /\ buffered = <<>>
    /\ next_expected = DATA_PAYLOAD
    /\ saw_eof = FALSE
    /\ eof_seq = NoneVal
    /\ consecutive_timeouts = 0
    /\ output = Fill(1, DATA_PAYLOAD)
    /\ last_cum = DATA_PAYLOAD
    /\ n_srv_to = 0
    /\ n_cli_to = 0
    /\ reduced = FALSE
    /\ hist = HistInit
    /\ Part1Init(DATA_SIZE)

ccRest == <<part1Vars, envVars, reduced, hist, next_seq, stop_event, w_payload,
            w_eof_sent, readerVars, net_down, net_up, receiverVars,
            n_srv_to, n_cli_to>>

\* one call of self._on_timeout()
CcTimeout ==
    /\ w_pc = "cc"
    /\ srv' = OnTimeout(srv)
    /\ w_pc' = "cc_timeout"
    /\ UNCHANGED <<w_seq, ccRest>>

\* one call of self._on_fast_retransmit()
CcFastRetransmit ==
    /\ w_pc = "cc"
    /\ srv' = OnFastRetransmit(srv)
    /\ w_pc' = "cc_fast"
    /\ UNCHANGED <<w_seq, ccRest>>

\* one call of self._on_new_ack(bytes_acked); w_seq keeps bytes_acked
CcNewAck ==
    /\ w_pc = "cc"
    /\ \E bytes_acked \in AckedBytes :
         /\ srv' = OnNewAck(srv, bytes_acked)
         /\ w_seq' = bytes_acked
    /\ w_pc' = "cc_new_ack"
    /\ UNCHANGED ccRest

NextC == CcTimeout \/ CcFastRetransmit \/ CcNewAck

SpecC == InitC /\ [][NextC]_vars

(***************************************************************************)
(* The ACK of the receiver for every content of its out-of-order buffer:   *)
(* the receiver waits in its download loop with nothing written yet, and   *)
(* its receive timeouts emit the ACK (_handle_timeout, _send_ack).         *)
(***************************************************************************)
MaxBufKey == 7
MaxSegLen == 3
MaxBuffered == 4

\* the contents of self.buffered: at most MaxBuffered segments of 1 to
\* MaxSegLen bytes at the offsets 1..MaxBufKey, adjacent, overlapping or apart
Buffers ==
    UNION { [keys -> { Fill(9, n) : n \in 1..MaxSegLen }] :
              keys \in { k \in SUBSET (1..MaxBufKey) : Cardinality(k) <= MaxBuffered } }

InitK ==
    /\ file = Fill(1, DATA_PAYLOAD)
    /\ lossless = FALSE
    /\ srv = ServerInit
    /\ next_seq = 0
    /\ stop_event = FALSE
    /\ w_pc = "fill"
    /\ w_seq = 0
    /\ w_payload = <<>>
    /\ w_eof_sent = 0
    /\ r_pc = "recv"
    /\ r_seq = NoneVal
    /\ r_payload = <<>>
    /\ net_down = {}
    /\ net_up = {}
    /\ c_pc = "download"
    /\ c_attempt = 0
    /\ buffered \in Buffers
    /\ next_expected = 0
    /\ saw_eof = FALSE
    /\ eof_seq = NoneVal
    /\ consecutive_timeouts = 0
    /\ output = <<>>
    /\ last_cum = NoneVal
    /\ n_srv_to = 0
    /\ n_cli_to = 0
    /\ reduced = FALSE
    /\ hist = HistInit
    /\ Part1Init(DATA_SIZE)

\* datagrams shorter than the 20-byte header
ShortDatagrams == { [kind |-> "short", len |-> n] : n \in {0, 4, HEADER_LEN - 1} }

\* _run_download: recvfrom returns a datagram from srv_addr that is shorter
\* than the header; _handle_packet_recv, and the test of the while
DownloadRecvShort ==
    /\ c_pc = "download"
    /\ \E pkt \in ShortDatagrams :
         LET res == HandlePacketRecv(pkt, buffered, next_expected, saw_eof,
                                     eof_seq, output)
         IN /\ buffered' = res.st.buffered
            /\ next_expected' = res.st.next_expected
            /\ output' = res.st.output
            /\ saw_eof' = res.saw_eof
            /\ eof_seq' = res.eof_seq
            /\ IF res.ack
               THEN /\ net_up' = SendUp(net_up,
                           SendAck(res.st.buffered, res.st.next_expected))
                    /\ last_cum' = res.st.next_expected
               ELSE UNCHANGED <<net_up, last_cum>>
            /\ c_pc' = IF IsComplete(res.saw_eof, res.eof_seq, res.st.next_expected)
                       THEN "success" ELSE "download"
    /\ consecutive_timeouts' = 0
    /\ UNCHANGED <<part1Vars, envVars, senderVars, net_down, c_attempt, n_srv_to, n_cli_to>>

NextK == DownloadTimeout \/ DownloadRecvShort

SpecK == InitK /\ [][NextK]_vars

(***************************************************************************)
(* The system of part 1: ReliableUDPServer.run / send_file (one thread)    *)
(* and ReliableUDPClient.run, over the same channel.                       *)
(***************************************************************************)
\* b'\x01', the request datagram of send_request
P1_REQUEST == [kind |-> "req", len |-> 1]

\* the client has left receive_file: it reads no more datagrams
P1ClientGone(pc) == pc \in {"failed", "write", "written", "write_failed"}

\* In part 1 a datagram in flight carries the number of its copy, so that
\* the copies of a packet sent several times in a row are several datagrams.
Dgram(pkt, n) == [pkt |-> pkt, copy |-> n]

\* socket.sendto of the server / of the client
P1SendDown(pkts) ==
    IF P1ClientGone(p1_client.pc) THEN net_down
    ELSE net_down \cup { Dgram(q, 1) : q \in pkts }

P1SendUp(net, pkt) ==
    IF p1_server.pc = "done" THEN net ELSE net \cup {Dgram(pkt, 1)}

part2Vars == <<senderVars, receiverVars>>

\* the variables of part 2 but the history of the wire, which part 1 shares
part2State == <<srv, reduced, next_seq, stop_event, writerVars, readerVars,
                receiverVars>>

\* the history after sendto of each of the segments seqs
SentAll(h, seqs) ==
    [h EXCEPT !.wire = [k \in DOMAIN h.wire \cup seqs |->
        IF k \in seqs
        THEN (IF k \in DOMAIN h.wire THEN Min(h.wire[k] + 1, HistCap) ELSE 1)
        ELSE h.wire[k]]]

\* the outer while leaving one acknowledgement early
P1AfterSelectEarly(S) ==
    [S EXCEPT !.pc = IF Cardinality(S.individually_acked) + 1 < NumChunks(file)
                     THEN "loop" ELSE "eof"]

\* whether the outer while of send_file goes on
P1AfterSelect(S) ==
    [S EXCEPT !.pc = IF Cardinality(S.individually_acked) < NumChunks(file)
                     THEN "loop" ELSE "eof"]

\* run: the request arrives; send_file reads data.txt and tests the outer while
P1WaitRequest ==
    /\ p1_server.pc = "wait_request"
    /\ \E pkt \in net_up :
         net_up' = Recv(net_up, pkt)
    /\ p1_server' = P1AfterSelect(p1_server)
    /\ UNCHANGED <<envVars, part2Vars, net_down, p1_client, p1_output, n_srv_to, n_cli_to>>

\* send_file: one pass of the inner while
P1SendNext ==
    /\ p1_server.pc = "loop"
    /\ WindowOpen(p1_server, file)
    /\ p1_server' = SendNext(p1_server, file)
    /\ net_down' = IF p1_server.next_seq \in p1_server.individually_acked
                   THEN net_down
                   ELSE P1SendDown({SendNext(p1_server, file).packets[p1_server.next_seq]})
    /\ hist' = IF p1_server.next_seq \in p1_server.individually_acked
               THEN hist ELSE SentAll(hist, {p1_server.next_seq})
    /\ UNCHANGED <<envVars, part2State, net_up, p1_client, p1_output, n_srv_to, n_cli_to>>

\* send_file: select returns the socket; the ACK branch, the slide of the
\* window, and the test of the outer while
P1RecvAck ==
    /\ p1_server.pc = "loop"
    /\ ~WindowOpen(p1_server, file)
    /\ \E pkt \in net_up, sample_rtt \in RttSamples :
         /\ net_up' = Recv(net_up, pkt)
         /\ p1_server' = P1AfterSelect(OnAck(p1_server, file, ParseSrAck(pkt.pkt), sample_rtt))
    /\ UNCHANGED <<envVars, part2Vars, net_down, p1_client, p1_output, n_srv_to, n_cli_to>>

\* send_file: select times out; the retransmissions, the backoff, and the
\* test of the outer while
P1Timeout ==
    /\ p1_server.pc = "loop"
    /\ ~WindowOpen(p1_server, file)
    /\ n_srv_to < MaxSrvTimeouts
    /\ n_srv_to' = n_srv_to + 1
    /\ net_down' = P1SendDown({ p1_server.packets[q] : q \in Retransmitted(p1_server) })
    /\ hist' = SentAll(hist, Retransmitted(p1_server))
    /\ p1_server' = P1AfterSelect(
           [p1_server EXCEPT !.timeout = Min(p1_server.timeout * 2, MAX_TIMEOUT_US)])
    /\ UNCHANGED <<envVars, part2State, net_up, p1_client, p1_output, n_cli_to>>

\* send_file: the EOF packet, sent P1_EOF_SENDS times; run then closes the
\* socket
P1SendEof ==
    /\ p1_server.pc = "eof"
    /\ net_down' = IF P1ClientGone(p1_client.pc) THEN net_down
                   ELSE net_down \cup
                        { Dgram(CreatePacket(p1_server.next_seq, EOF_MARKER), n) :
                            n \in 1..Min(P1_EOF_SENDS, MaxEofCopies) }
    /\ p1_server' = [p1_server EXCEPT !.pc = "done"]
    /\ net_up' = {}
    /\ UNCHANGED <<envVars, part2Vars, p1_client, p1_output, n_srv_to, n_cli_to>>

\* send_request: sendto(request) of one attempt
P1SendRequest ==
    /\ p1_client.pc = "request"
    /\ net_up' = P1SendUp(net_up, P1_REQUEST)
    /\ p1_client' = [p1_client EXCEPT !.pc = "req_wait"]
    /\ UNCHANGED <<envVars, part2Vars, net_down, p1_server, p1_output, n_srv_to, n_cli_to>>

\* send_request returns the first datagram; receive_file stores it under its
\* sequence number and acknowledges it
P1RequestRecv ==
    /\ p1_client.pc = "req_wait"
    /\ \E pkt \in net_down :
         LET p == P1ParsePacket(pkt.pkt)
             C == [p1_client EXCEPT !.pc = "loop", !.attempt = 0]
         IN /\ net_down' = Recv(net_down, pkt)
            /\ IF p.seq_num # NoneVal
               THEN /\ p1_client' = StorePacket(C, p.seq_num, p.data)
                    /\ net_up' = P1SendUp(net_up, CreateSrAck(p.seq_num))
               ELSE /\ p1_client' = C
                    /\ UNCHANGED net_up
    /\ UNCHANGED <<envVars, part2Vars, p1_server, p1_output, n_srv_to, n_cli_to>>

\* send_request: socket.timeout after REQUEST_TIMEOUT; the next attempt, or
\* None after MAX_RETRIES attempts (receive_file returns False)
P1RequestTimeout ==
    /\ p1_client.pc = "req_wait"
    /\ p1_client' = [p1_client EXCEPT
           !.attempt = @ + 1,
           !.pc = IF p1_client.attempt + 1 >= MAX_RETRIES THEN "failed" ELSE "request"]
    /\ net_down' = IF p1_client.attempt + 1 >= MAX_RETRIES THEN {} ELSE net_down
    /\ UNCHANGED <<envVars, part2Vars, net_up, p1_server, p1_output, n_srv_to, n_cli_to>>

\* receive_file: one datagram of the receive loop
P1LoopRecv ==
    /\ p1_client.pc = "loop"
    /\ \E pkt \in net_down :
         LET p == P1ParsePacket(pkt.pkt)
             C == [p1_client EXCEPT !.consecutive_timeouts = 0]
         IN IF p.seq_num = NoneVal
            THEN /\ p1_client' = C
                 /\ net_down' = Recv(net_down, pkt)
                 /\ UNCHANGED net_up
            ELSE IF p.data = EOF_MARKER
            THEN /\ p1_client' = [C EXCEPT !.eof_received = TRUE, !.pc = "write"]
                 /\ net_up' = P1SendUp(net_up, CreateSrAck(p.seq_num))
                 /\ net_down' = {}
            ELSE /\ p1_client' = IF p.seq_num \in C.acked_packets THEN C
                                 ELSE StorePacket(C, p.seq_num, p.data)
                 /\ net_up' = P1SendUp(net_up, CreateSrAck(p.seq_num))
                 /\ net_down' = Recv(net_down, pkt)
    /\ UNCHANGED <<envVars, part2Vars, p1_server, p1_output, n_srv_to, n_cli_to>>

\* receive_file: socket.timeout after 5 s; the loop ends at the tenth in a
\* row, or once no packet has come for more than 30 s
P1LoopTimeout ==
    /\ p1_client.pc = "loop"
    /\ p1_server.pc = "done" \/ n_cli_to < MaxCliTimeouts
    /\ n_cli_to' = IF n_cli_to >= MaxCliTimeouts THEN n_cli_to ELSE n_cli_to + 1
    /\ LET n == p1_client.consecutive_timeouts + 1
           stop == \/ n >= P1_MAX_CONSECUTIVE_TIMEOUTS
                   \/ n * P1_RECV_TIMEOUT_S >= P1_IDLE_LIMIT_S
       IN /\ p1_client' = [p1_client EXCEPT !.consecutive_timeouts = n,
                              !.pc = IF stop THEN "write" ELSE "loop"]
          /\ net_down' = IF stop THEN {} ELSE net_down
    /\ UNCHANGED <<envVars, part2Vars, net_up, p1_server, p1_output, n_srv_to>>

\* run: receive_file returned True; write_file
P1WriteFile ==
    /\ p1_client.pc = "write"
    /\ IF DOMAIN p1_client.received_packets = {}
       THEN /\ p1_client' = [p1_client EXCEPT !.pc = "write_failed"]
            /\ UNCHANGED p1_output
       ELSE /\ p1_client' = [p1_client EXCEPT !.pc = "written"]
            /\ p1_output' = ConcatSorted(p1_client.received_packets,
                                         DOMAIN p1_client.received_packets)
    /\ UNCHANGED <<envVars, part2Vars, net_down, net_up, p1_server, n_srv_to, n_cli_to>>

\* main: client.run() returns whatever receive_file and write_file did, and
\* the interpreter ends with status 0; sys.exit(1) is the usage error only
P1ClientExitCode(pc) ==
    IF pc \in {"failed", "written", "write_failed"} THEN 0 ELSE NoneVal

P1Server == P1WaitRequest \/ P1SendNext \/ P1RecvAck \/ P1Timeout \/ P1SendEof

P1Client ==
    \/ P1SendRequest \/ P1RequestRecv \/ P1RequestTimeout
    \/ P1LoopRecv \/ P1LoopTimeout \/ P1WriteFile

InitA ==
    /\ file \in Files
    /\ lossless = FALSE
    /\ Part2Init
    /\ \E sws \in SwsValues : Part1Init(sws)

NextA == P1Server \/ P1Client

SpecA == InitA /\ [][NextA]_vars

(***************************************************************************)
(* The timeout branch of send_file, applied once to the states in which    *)
(* select can time out: the window is closed, some segments above the base *)
(* are acknowledged, and the timeout is any value the backoff and the RTT  *)
(* estimator leave.                                                        *)
(***************************************************************************)
\* self.timeout: the floor, the initial value and its doublings up to the cap
TimeoutValues ==
    {MIN_TIMEOUT_US, TIMEOUT_US, 2 * TIMEOUT_US, 3 * TIMEOUT_US, MAX_TIMEOUT_US}

\* next_seq once the inner while has closed the window over the base b
RECURSIVE ClosedAt(_, _, _, _)
ClosedAt(f, sws, b, n) ==
    IF n < BLen(f) /\ n - b < sws
    THEN ClosedAt(f, sws, b, n + BLen(ChunkAt(f, n \div DATA_SIZE)))
    ELSE n

\* the states of the sender at select: base b unacknowledged, every segment
\* below it acknowledged, any of those above it too, the sent ones in packets
WaitingStates(f, sws) ==
    UNION { { [pc |-> "loop",
               sws |-> sws,
               send_base |-> b,
               next_seq |-> ClosedAt(f, sws, b, b),
               packets |-> [s \in { q \in SeqNumbers(f) : q >= b /\ q < ClosedAt(f, sws, b, b) }
                              |-> CreatePacket(s, ChunkAt(f, s \div DATA_SIZE))],
               individually_acked |-> { q \in SeqNumbers(f) : q < b } \cup above,
               estimated_rtt |-> TIMEOUT_US,
               dev_rtt |-> 0,
               timeout |-> tmo] :
                above \in SUBSET { q \in SeqNumbers(f) : q > b /\ q < ClosedAt(f, sws, b, b) },
                tmo \in TimeoutValues } :
            b \in SeqNumbers(f) }

InitT ==
    /\ file \in Files
    /\ lossless = FALSE
    /\ Part2Init
    /\ p1_client = P1ClientInit
    /\ p1_output = <<>>
    /\ \E sws \in SwsValues \cup {3 * DATA_SIZE} :
          p1_server \in WaitingStates(file, sws)

NextT == P1Timeout

SpecT == InitT /\ [][NextT]_vars

(***************************************************************************)
(* Properties of part 2                                                    *)
(***************************************************************************)
\* C1 (integrity, as the specification states it): whenever the download
\* loop of the receiver ends with success, the bytes written to the output
\* file are byte for byte the sender's file.
C1_Integrity == c_pc = "success" => output = file

\* C3 (no gap bypass): next_expected is the number of bytes written so far,
\* and the bytes written are the file's bytes [0, next_expected), in order.
C3_NoGapBypass ==
    /\ next_expected = BLen(output)
    /\ output = BTake(file, next_expected)

\* a segment waits beyond a gap while a prefix has been written
C3_Witness ==
    /\ c_pc = "download"
    /\ next_expected > 0
    /\ \E s \in DOMAIN buffered : s > next_expected

\* C4 (monotonic delivery): no step decreases next_expected, and the
\* cumulative values of the ACKs the receiver emits never decrease.
C4_Monotonic ==
    [][next_expected' >= next_expected /\ last_cum' >= last_cum]_vars

\* the receiver has emitted ACKs with growing cumulative values, up to the
\* end of a file of several segments
C4_Witness == Size > DATA_PAYLOAD /\ last_cum = Size /\ next_expected = Size

\* C5 (window bound, as the specification states it): in every reachable
\* state the inflight bytes are at most floor(cwnd).
C5_WindowBound == InflightBytes(srv) <= GetCurrentWindow(srv)

\* C5 (window bound, amended): until the first timeout or fast-retransmit
\* event reduces cwnd, the inflight bytes are at most floor(cwnd).
C5_WindowBoundUntilReduced ==
    ~reduced => InflightBytes(srv) <= GetCurrentWindow(srv)

\* two segments are inflight and no event has reduced the window
C5_Witness == ~reduced /\ Cardinality(DOMAIN srv.inflight) >= 2

\* C7 (congestion floors): in every reachable state cwnd >= MSS and
\* ssthresh >= 2 * MSS.
C7_Floors ==
    /\ srv.cwnd >= MSS * CwndScale
    /\ srv.ssthresh >= 2 * MSS * CwndScale

\* a timeout event has run with cwnd below 4 * MSS: ssthresh sits on its floor
C7_Witness ==
    /\ reduced
    /\ srv.ssthresh = 2 * MSS * CwndScale
    /\ srv.cwnd = MSS * CwndScale

\* C8 (inflight range, as the specification states it), read at the points
\* where the writer is not between _record_transmit and the advance of
\* next_seq: every key s of the inflight table has base <= s < next_seq.
C8_InflightRange ==
    w_pc # "advance" =>
        \A s \in DOMAIN srv.inflight : srv.base <= s /\ s < next_seq

\* The ACKs a receiver of this file can compose: a cumulative value on a
\* segment boundary, and no block or one block of segments above it
Offsets == { Min(k * DATA_PAYLOAD, Size) : k \in 0..3 }

AckUniverse ==
    { a \in [ack : Offsets,
             sack : {<<>>} \cup { <<b>> : b \in Offsets \X Offsets }] :
        \A i \in 1..Len(a.sack) : a.ack < a.sack[i][1] /\ a.sack[i][1] < a.sack[i][2] }

\* C9 (idempotent ACK handling, as the specification states it): after
\* _mark_ack has processed an ACK, processing the same ACK again changes
\* nothing but the duplicate-ACK counter.
C9_Idempotent ==
    \A a \in AckUniverse, x \in RttSamples :
        LET s1 == MarkAck(srv, a.ack, a.sack, x).S
            s2 == MarkAck(s1, a.ack, a.sack, x).S
        IN [s2 EXCEPT !.dup_count = 0] = [s1 EXCEPT !.dup_count = 0]

\* What a repetition of the ACK a may do to the state sA, giving sB
RepeatEffect(sA, sB, a) ==
    LET third == /\ a.ack >= sA.base
                 /\ sA.dup_count = DUP_THRESHOLD - 1
                 /\ sB.dup_count = DUP_THRESHOLD
        half == Max(sA.cwnd \div 2, 2 * MSS * CwndScale)
    IN /\ sB.inflight = sA.inflight
       /\ sB.base = sA.base
       /\ sB.last_ack = sA.last_ack
       /\ sB.rto = sA.rto
       /\ sB.rtt_estimate = sA.rtt_estimate
       /\ sB.rtt_dev = sA.rtt_dev
       /\ sB.dup_count = IF a.ack >= sA.base THEN sA.dup_count + 1 ELSE sA.dup_count
       /\ sB.sack_blocks = sA.sack_blocks
       /\ IF third
          THEN sB.ssthresh = half /\ sB.cwnd = half /\ ~sB.in_slow_start
          ELSE /\ sB.ssthresh = sA.ssthresh
               /\ sB.cwnd = sA.cwnd
               /\ sB.in_slow_start = sA.in_slow_start

\* C9 (idempotent ACK handling, amended): a second and a third processing
\* of the same ACK leave the inflight table, base, the recorded SACK blocks
\* and the RTT state alone, count a duplicate when cum >= base, and change
\* cwnd, ssthresh and in_slow_start only when the counter reaches 3, to the
\* fast-retransmit values.
C9_RepeatedAck ==
    \A a \in AckUniverse, x \in RttSamples :
        LET s1 == MarkAck(srv, a.ack, a.sack, x).S
            s2 == MarkAck(s1, a.ack, a.sack, x).S
            s3 == MarkAck(s2, a.ack, a.sack, x).S
        IN RepeatEffect(s1, s2, a) /\ RepeatEffect(s2, s3, a)

\* the sender has counted two duplicates of an ACK above 0 while the segment
\* at base is inflight: one more repetition is the third duplicate
C9_Witness ==
    /\ srv.base > 0
    /\ srv.dup_count = DUP_THRESHOLD - 1
    /\ srv.base \in DOMAIN srv.inflight

\* C10 (stale ACK, as the specification states it): _mark_ack of an ACK in
\* flight whose cumulative value is below base changes no sender variable
\* and asks for no retransmission.
C10_StaleDiscarded ==
    \A pkt \in net_up, x \in RttSamples :
        (pkt.kind = "ack" /\ DecodeAck(pkt).ack < srv.base) =>
            LET res == MarkAck(srv, DecodeAck(pkt).ack, DecodeAck(pkt).sack, x)
            IN res.S = srv /\ res.fast_seq = NoneVal

\* C14 (PeerSilent, as the specification states it): a step of the download
\* loop ends the download with failure exactly when it is the receive
\* timeout that brings consecutive_timeouts to 10; the loop never goes on
\* after the 10th consecutive timeout and never aborts on fewer.
C14_AbortOnTenthTimeout ==
    [][ c_pc = "download" =>
          (c_pc' = "failed" <=>
              /\ consecutive_timeouts' = consecutive_timeouts + 1
              /\ consecutive_timeouts' = MAX_CONSECUTIVE_TIMEOUTS) ]_vars

\* C16 (sender waiting state, as the specification states it): a sender
\* whose 5 s wait ended without a request has transmitted nothing and ends
\* with exit code 1, which tells it apart from a completed transfer.
C16_NoRequestFails ==
    w_pc = "no_request" =>
        /\ DOMAIN hist.wire = {}
        /\ w_eof_sent = 0
        /\ ServerExitCode(w_pc) = 1
        /\ ServerExitCode(w_pc) # ServerExitCode("done")

\* C17 (Karn's rule, as the specification states it): whenever the ACK
\* reader processes an ACK, every segment whose RTT that call of _mark_ack
\* feeds to the estimator has been put on the wire exactly once and lies
\* at or below the cumulative value of the ACK.
C17_KarnSampleSentOnce ==
    [][ \A pkt \in net_up, sample \in RttSamples :
          ( /\ r_pc = "recv" /\ ~stop_event /\ pkt.kind = "ack"
            /\ net_up' = Recv(net_up, pkt)
            /\ srv' = Canon(MarkAck(srv, DecodeAck(pkt).ack, DecodeAck(pkt).sack, sample).S) )
          => \A s \in ObservedSeqs(srv, DecodeAck(pkt).ack) :
                /\ hist.wire[s] = 1
                /\ s + BLen(srv.inflight[s].payload) <= DecodeAck(pkt).ack ]_vars

\* C19 (a retransmission re-times and never recreates, as the
\* specification states it): the _record_transmit that ends a timeout
\* retransmission finds the entry of the segment still inflight, changes
\* its last_sent only, and inserts no entry.
C19_RetransmitNeverRecreates ==
    [][ (w_pc = "retx_record" /\ w_pc' = "check") =>
          /\ w_seq \in DOMAIN srv.inflight
          /\ DOMAIN srv'.inflight = DOMAIN srv.inflight
          /\ srv'.inflight[w_seq].first_sent = srv.inflight[w_seq].first_sent
          /\ srv'.inflight[w_seq].payload = srv.inflight[w_seq].payload ]_vars

\* C20 (inflight removal, as the specification states it): once the ACK
\* reader has processed an ACK whose cumulative value is at least base, no
\* inflight entry lies at or below that value and none is covered by one
\* of the SACK blocks of the ACK, a duplicate ACK included.  Stated for
\* the calls that find every inflight entry at or above base.
C20_AckedEntriesRemoved ==
    [][ \A pkt \in net_up, sample \in RttSamples :
          ( /\ r_pc = "recv" /\ ~stop_event /\ pkt.kind = "ack"
            /\ net_up' = Recv(net_up, pkt)
            /\ srv' = Canon(MarkAck(srv, DecodeAck(pkt).ack, DecodeAck(pkt).sack, sample).S)
            /\ DecodeAck(pkt).ack >= srv.base
            /\ \A s \in DOMAIN srv.inflight : s >= srv.base )
          => \A s \in DOMAIN srv'.inflight :
                LET end == s + BLen(srv'.inflight[s].payload)
                    sack == DecodeAck(pkt).sack
                IN /\ ~(end <= DecodeAck(pkt).ack)
                   /\ ~\E i \in 1..Len(sack) : s >= sack[i][1] /\ end <= sack[i][2] ]_vars

\* the length of the contiguous prefix of the file the receiver holds, on
\* the file and in its buffer
PrefixHeld == DrainInorderBuffer(buffered, next_expected, <<>>).next_expected

\* C21 (ACK content, as the specification states it): every ACK that the
\* receiver emits in response to a packet, the first packet of the
\* handshake included, carries as cumulative value the length of the
\* contiguous prefix the receiver holds after processing that packet.
C21_AckCarriesPrefix ==
    [][ ((HandshakeRecv \/ DownloadRecv) /\ last_cum' # NoneVal)
          => last_cum' = PrefixHeld' ]_vars

\* C22 (timeout step, as the specification states it): the segments that
\* were found expired together, at one instant, cause one call of
\* _on_timeout in total, not one call per pass of the loop.
C22_OneEventPerEpisode == hist.ep_events <= 1

\* a data packet the receiver already holds: below next_expected, or at a
\* key of the out-of-order buffer
IsDuplicate(pkt) ==
    LET p == ParsePacket(pkt)
    IN /\ p.seq # NoneVal
       /\ ~p.eof
       /\ p.data # <<>>
       /\ p.seq < next_expected \/ p.seq \in DOMAIN buffered

\* the step is _handle_packet_recv of pkt in the download loop
DownloadRecvOf(pkt) ==
    /\ c_pc = "download"
    /\ pkt \in net_down
    /\ Deliverable(net_down, pkt)
    /\ net_down' = Recv(net_down, pkt) \/ (c_pc' = "success" /\ net_down' = {})
    /\ LET res == HandlePacketRecv(pkt, buffered, next_expected, saw_eof, eof_seq, output)
       IN /\ buffered' = res.st.buffered
          /\ next_expected' = res.st.next_expected
          /\ output' = res.st.output
          /\ saw_eof' = res.saw_eof
          /\ eof_seq' = res.eof_seq

\* C27 (duplicates at the receiver): _handle_packet_recv of a data packet
\* already delivered changes neither next_expected, nor the buffer, nor the
\* bytes written, and sends an ACK; and after _handle_packet_recv of any
\* data packet, the same packet once more leaves the state it finds.
C27_DuplicatesDropped ==
    [][ \A pkt \in net_down :
          /\ (DownloadRecvOf(pkt) /\ IsDuplicate(pkt)) =>
                /\ next_expected' = next_expected
                /\ buffered' = buffered
                /\ output' = output
                /\ net_up' = SendUp(net_up, SendAck(buffered, next_expected))
                /\ last_cum' = next_expected
          /\ (DownloadRecvOf(pkt) /\ ParsePacket(pkt).seq # NoneVal /\ ~ParsePacket(pkt).eof) =>
                LET again == HandlePacketRecv(pkt, buffered', next_expected',
                                              saw_eof', eof_seq', output')
                IN /\ again.st = [buffered |-> buffered', next_expected |-> next_expected',
                                  output |-> output']
                   /\ again.saw_eof = saw_eof'
                   /\ again.eof_seq = eof_seq'
                   /\ again.ack ]_vars

\* the download loop is about to receive a second copy of a segment that
\* sits in the out-of-order buffer, after it has written a prefix
C27_Witness ==
    /\ c_pc = "download"
    /\ next_expected > 0
    /\ \E pkt \in net_down :
         /\ Deliverable(net_down, pkt)
         /\ IsDuplicate(pkt)
         /\ ParsePacket(pkt).seq \in DOMAIN buffered

\* C29 (EOF phase): the sender emits its EOF packet only when next_seq is
\* the file size and the inflight table is empty, the EOF packet carries
\* the file size as its sequence number, and once it is sent no data packet
\* is sent any more.
C29_EofPhase ==
    [][ /\ SendEof =>
              /\ next_seq = Size
              /\ DOMAIN srv.inflight = {}
              /\ \A pkt \in net_down' \ net_down :
                    /\ ParsePacket(pkt).eof
                    /\ ParsePacket(pkt).seq = Size
        /\ w_eof_sent > 0 =>
              /\ hist'.wire = hist.wire
              /\ net_down' \subseteq net_down ]_vars

\* the EOF packet is out after a transfer of several segments with a
\* retransmission, and the ACK reader is still running
C29_Witness ==
    /\ w_eof_sent > 0
    /\ ~stop_event
    /\ Size > DATA_PAYLOAD
    /\ \E s \in DOMAIN hist.wire : hist.wire[s] >= 2
    /\ \E pkt \in net_down : ParsePacket(pkt).eof /\ ParsePacket(pkt).seq = Size

\* the inflight segment seq lies inside a recorded SACK block
CoveredBySack(seq) ==
    \E i \in 1..Len(srv.sack_blocks) :
        /\ srv.sack_blocks[i][1] <= seq
        /\ seq + BLen(srv.inflight[seq].payload) <= srv.sack_blocks[i][2]

\* the inflight sequences last sent before cutoff and outside every recorded
\* SACK block
ExpiredUncovered(cutoff) ==
    { seq \in DOMAIN srv.inflight :
        srv.inflight[seq].last_sent < cutoff /\ ~CoveredBySack(seq) }

\* C30 (timer expiry gating): the timeout path picks its segment among
\* exactly the inflight sequences whose timer has run out and that no
\* recorded SACK block covers, and it never retransmits a segment that a
\* recorded SACK block covers.
C30_TimerGating ==
    [][ /\ (DetectExpired /\ w_pc' = "on_timeout") =>
              \E cutoff \in 0..Now(srv) :
                 /\ ExpiredUncovered(cutoff) # {}
                 /\ w_seq' = SetMin(ExpiredUncovered(cutoff))
        /\ (RetransmitSend /\ HasPayload(srv, w_seq)) => ~CoveredBySack(w_seq) ]_vars

\* the sequence numbers of the segments of the file, and the end of each
SegmentSeqs == { i * DATA_PAYLOAD : i \in 0..((Size - 1) \div DATA_PAYLOAD) }

SegmentEnd(s) == Min(s + DATA_PAYLOAD, Size)

\* the receiver has the segment at s: written, or in its out-of-order buffer
ReceiverHolds(s) ==
    \/ SegmentEnd(s) <= next_expected
    \/ s \in DOMAIN buffered /\ s + BLen(buffered[s]) = SegmentEnd(s)

\* C33 (safe removal): every segment below next_seq that is absent from the
\* inflight table has been received: its bytes are written or held in the
\* out-of-order buffer.
C33_SafeRemoval ==
    \A s \in SegmentSeqs :
        (s < next_seq /\ s \notin DOMAIN srv.inflight) => ReceiverHolds(s)

\* the sender has dropped a segment on a SACK block: the receiver holds it
\* in its buffer above a gap, and the segment of the gap is still inflight
C33_Witness ==
    \E s \in SegmentSeqs :
        /\ s < next_seq
        /\ s \notin DOMAIN srv.inflight
        /\ s > next_expected
        /\ s \in DOMAIN buffered
        /\ next_expected \in DOMAIN srv.inflight

\* C34 (drained implies delivered): when the sender leaves its transfer
\* loop, and from then on, the receiver's next_expected is the file size:
\* every byte is written in order.
C34_DrainedImpliesDelivered ==
    /\ [][ (CheckDone /\ w_pc' = "eof") => next_expected = Size ]_vars
    /\ [](w_pc \in {"eof", "finally", "done"} => next_expected = Size)

\* the sender has left the loop of a transfer in which a segment was sent
\* twice and the segment above it once
C34_Witness ==
    /\ w_pc = "eof"
    /\ \E s \in DOMAIN hist.wire :
         /\ hist.wire[s] >= 2
         /\ s + DATA_PAYLOAD \in DOMAIN hist.wire
         /\ hist.wire[s + DATA_PAYLOAD] = 1

\* C35 (progress after full acknowledgement): with the threads kept
\* running, once base has reached the size of a file that is not empty,
\* the inflight table becomes and stays empty and the EOF packet is sent.
C35_ProgressAfterFullAck ==
    [](srv.base = Size /\ Size > 0 =>
          /\ <>[](DOMAIN srv.inflight = {})
          /\ <>(w_eof_sent > 0))

\* C36 (congestion response tied to retransmission): the ACK reader lowers
\* ssthresh and cwnd for a fast retransmit only when it retransmits the
\* base segment; a third duplicate ACK that finds the base segment SACKed or
\* no longer inflight leaves cwnd and ssthresh as they are.
C36_EventOnlyWithRetransmit ==
    [][ (ReaderAck /\ srv.dup_count = DUP_THRESHOLD - 1 /\ srv'.dup_count = DUP_THRESHOLD) =>
          /\ r_seq' = NoneVal =>
                (srv'.cwnd = srv.cwnd /\ srv'.ssthresh = srv.ssthresh)
          /\ hist'.fr_events # hist.fr_events => r_seq' = srv.base ]_vars

\* the step is a fast-retransmit event (the third duplicate ACK)
FastRetransmitEvent ==
    ReaderAck /\ srv.dup_count = DUP_THRESHOLD - 1 /\ srv'.dup_count = DUP_THRESHOLD

\* C37 (loss events never enlarge the window): a fast-retransmit event or a
\* timeout event leaves cwnd at most what it was before the event.
C37_LossEventsShrink ==
    [][ (FastRetransmitEvent \/ TimeoutEvent) => srv'.cwnd <= srv.cwnd ]_vars

\* C39 (slow-start flag and duplicate reference): in every reachable state
\* in_slow_start is true only if cwnd < ssthresh, and _last_ack equals base,
\* so that an ACK counts as a duplicate exactly when its cumulative value is
\* base.
C39_FlagConsistency ==
    /\ srv.in_slow_start => srv.cwnd < srv.ssthresh
    /\ srv.last_ack = srv.base

\* slow start was left by growth alone: after a timeout set ssthresh, new
\* ACKs moved base and took cwnd up to ssthresh, with no fast retransmit
C39_Witness ==
    /\ ~srv.in_slow_start
    /\ srv.cwnd >= srv.ssthresh
    /\ srv.base > 0
    /\ hist.to_events > 0
    /\ hist.fr_events = 0

\* the blocks of the ACK that _send_ack composes from the receiver's state
\* start above its cumulative value, and _decode_ack returns all of them
AckBlocksPresent(buf, ne) ==
    LET ack    == SendAck(buf, ne)
        blocks == GetSackBlocks(buf)
    IN /\ DecodeAck(ack).ack = ne
       /\ DecodeAck(ack).sack = blocks
       /\ \A i \in 1..Len(blocks) :
             /\ blocks[i][1] > ne
             /\ blocks[i][1] > 0
             /\ blocks[i][2] > blocks[i][1]

\* C40 (position of the receiver's buffer): in the download phase, after
\* every packet handled, every key of the out-of-order buffer is strictly
\* greater than next_expected; and every ACK emitted in that phase, for a
\* packet or for a timeout, carries SACK blocks that start strictly above
\* its cumulative value and that _decode_ack returns as present.
C40_BufferAboveNextExpected ==
    /\ [](c_pc = "download" => \A k \in DOMAIN buffered : k > next_expected)
    /\ [][ (DownloadRecv \/ DownloadTimeout) =>
              /\ \A k \in DOMAIN buffered' : k > next_expected'
              /\ AckBlocksPresent(buffered', next_expected')
              /\ ~SenderGone /\ net_up' # net_up =>
                    \E d \in net_up' \ net_up :
                       /\ DecodeAck(d).ack = next_expected'
                       /\ DecodeAck(d).sack = GetSackBlocks(buffered') ]_vars

\* a segment was buffered beyond a gap after a prefix was written, and the
\* ACK for it is on its way with the block decoded above its cumulative value
C40_Witness ==
    /\ c_pc = "download"
    /\ next_expected > 0
    /\ buffered # <<>>
    /\ \E d \in net_up :
          /\ d.kind = "ack"
          /\ DecodeAck(d).ack = next_expected
          /\ Len(DecodeAck(d).sack) > 0
          /\ DecodeAck(d).sack = GetSackBlocks(buffered)
          /\ DecodeAck(d).sack[1][1] > next_expected

(***************************************************************************)
(* Properties of part 2 over the lossless channel with at most one drop    *)
(***************************************************************************)
\* the ACK reader asks for a fast retransmit / _mark_ack counts the third
\* duplicate (the only step that takes the counter from 2 to 3)
FRSignal == r_pc = "recv" /\ r_pc' = "fr_payload"

ThirdDup ==
    srv.dup_count = DUP_THRESHOLD - 1 /\ srv'.dup_count = DUP_THRESHOLD

BaseUnsacked ==
    /\ srv.base \in DOMAIN srv.inflight
    /\ ~IsSacked(srv', srv.base, BLen(srv.inflight[srv.base].payload))

C12_LosslessNoRetransmission ==
    [][ (hist'.drops = 0 /\ Size > DATA_PAYLOAD) =>
            /\ \A s \in DOMAIN hist'.wire : hist'.wire[s] = 1
            /\ srv'.cwnd >= srv.cwnd
      ]_vars

\* C13 (eventual completion, as the specification states it): with the
\* writer thread, the ACK reader thread and the receiver kept running and a
\* channel that drops nothing, a sender that has entered its transfer loop
\* reaches the EOF phase (unless the receiver has given up before).
C13_EventualCompletion ==
    (w_pc = "fill") ~> (w_pc \in {"eof", "finally", "done"} \/ c_pc = "failed")

\* C18 (Karn's rule of part 1, as the specification states it): whenever
\* the ACK branch of send_file calls update_rtt for a segment, that segment
\* has been transmitted exactly once.
C18_KarnSampleSentOnceA ==
    [][ \A pkt \in net_up, sample_rtt \in RttSamples :
          ( /\ p1_server.pc = "loop" /\ ~WindowOpen(p1_server, file)
            /\ net_up' = Recv(net_up, pkt)
            /\ p1_server' = P1AfterSelect(OnAck(p1_server, file, ParseSrAck(pkt.pkt), sample_rtt))
            /\ ParseSrAck(pkt.pkt) # NoneVal
            /\ ParseSrAck(pkt.pkt) \notin p1_server.individually_acked
            /\ ParseSrAck(pkt.pkt) \in DOMAIN p1_server.packets )
          => hist.wire[ParseSrAck(pkt.pkt)] = 1 ]_vars

\* C15 (fatal errors of the part 1 receiver, as the specification states
\* them): a receiver whose handshake is exhausted ends with exit code 1,
\* and a receiver that leaves its receive loop without the EOF marker ends
\* with exit code 1 and writes no file.
C15_FatalErrorsA ==
    /\ p1_client.pc = "failed" => P1ClientExitCode(p1_client.pc) = 1
    /\ ~p1_client.eof_received =>
          /\ p1_client.pc # "written"
          /\ p1_client.pc = "write_failed" => P1ClientExitCode(p1_client.pc) = 1

(***************************************************************************)
(* Properties of the congestion methods                                    *)
(***************************************************************************)
CwndCap == CWND_CAP_MSS * MSS * CwndScale
SsthreshFloor == 2 * MSS * CwndScale

\* C23 (timeout event): one call of _on_timeout sets ssthresh to
\* max(cwnd_before / 2, 2 * MSS), cwnd to MSS and in_slow_start to true, and
\* leaves the inflight table, base, next_seq, the SACK blocks and the
\* duplicate counter as they were.
C23_TimeoutEffect ==
    [][ (w_pc = "cc" /\ w_pc' = "cc_timeout") =>
          /\ srv'.ssthresh = Max(srv.cwnd \div 2, SsthreshFloor)
          /\ srv'.cwnd = MSS * CwndScale
          /\ srv'.in_slow_start
          /\ srv'.inflight = srv.inflight
          /\ srv'.base = srv.base
          /\ srv'.sack_blocks = srv.sack_blocks
          /\ srv'.dup_count = srv.dup_count
          /\ next_seq' = next_seq ]_vars

\* a timeout event at a large window, with segments inflight: half the
\* window, above the floor, has become ssthresh
C23_Witness ==
    /\ w_pc = "cc_timeout"
    /\ srv.ssthresh > SsthreshFloor
    /\ srv.inflight # <<>>
    /\ srv.dup_count = 2

\* C24 (fast-retransmit event): one call of _on_fast_retransmit sets
\* ssthresh to max(cwnd_before / 2, 2 * MSS), cwnd to the new ssthresh and
\* in_slow_start to false.
C24_FastRetransmitEffect ==
    [][ (w_pc = "cc" /\ w_pc' = "cc_fast") =>
          /\ srv'.ssthresh = Max(srv.cwnd \div 2, SsthreshFloor)
          /\ srv'.cwnd = srv'.ssthresh
          /\ ~srv'.in_slow_start ]_vars

\* a fast-retransmit event at a large window: cwnd is half the window, above
\* the floor and above MSS
C24_Witness ==
    /\ w_pc = "cc_fast"
    /\ srv.cwnd > SsthreshFloor
    /\ srv.cwnd = srv.ssthresh

BufferedBytes(buf) ==
    UNION { k .. (k + BLen(buf[k]) - 1) : k \in DOMAIN buf }

\* the maximal runs [start, end) of a set of bytes
Runs(bytes) ==
    { <<a, b>> \in (bytes \X { x + 1 : x \in bytes }) :
        /\ a < b
        /\ \A x \in a..(b - 1) : x \in bytes
        /\ (a - 1) \notin bytes
        /\ b \notin bytes }

\* the lowest two of a set of runs, ascending
LowestRuns(R) ==
    LET low(Q) == CHOOSE r \in Q : \A q \in Q : r[1] <= q[1]
    IN IF R = {} THEN <<>>
       ELSE IF Cardinality(R) = 1 THEN <<low(R)>>
       ELSE LET first == low(R) IN <<first, low(R \ {first})>>

\* C26 (SACK synthesis): every ACK the receiver emits carries exactly the
\* lowest two maximal runs of its out-of-order buffer (fewer when fewer
\* exist), coalesced from adjacent or overlapping segments; the blocks are
\* non-empty, ascending, disjoint, non-adjacent and cover buffered bytes only.
C26_SackBlocksAreLowestRuns ==
    net_up # {} =>
        LET bytes == BufferedBytes(buffered)
            lowest == LowestRuns(Runs(bytes))
            opt == ComposeAck(next_expected, lowest).opt
        IN /\ GetSackBlocks(buffered) = lowest
           /\ \A a \in net_up : a.opt = opt
           /\ \A i \in 1..Len(lowest) :
                 /\ lowest[i][1] < lowest[i][2]
                 /\ \A x \in lowest[i][1]..(lowest[i][2] - 1) : x \in bytes
           /\ Len(lowest) = 2 => lowest[1][2] < lowest[2][1]

\* an ACK has been emitted for a buffer of three runs or more, one of them
\* coalesced from several segments
C26_Witness ==
    /\ net_up # {}
    /\ Cardinality(Runs(BufferedBytes(buffered))) >= 3
    /\ Cardinality(DOMAIN buffered) > Cardinality(Runs(BufferedBytes(buffered)))

\* C28 (malformed packets at the receiver): a datagram from the server
\* shorter than the header changes nothing of the reassembly state, causes
\* no ACK, and leaves the consecutive-timeout counter as it was.
C28_ShortDatagramIgnored ==
    [][ DownloadRecvShort =>
          /\ UNCHANGED <<next_expected, buffered, saw_eof, eof_seq, output>>
          /\ UNCHANGED <<net_up, last_cum>>
          /\ consecutive_timeouts' = consecutive_timeouts ]_vars

(***************************************************************************)
(* Properties of part 1                                                    *)
(***************************************************************************)
\* C2 (integrity of part 1, as the specification states it): the file that
\* write_file writes is byte for byte the sender's data.txt.
C2_IntegrityA == p1_client.pc = "written" => p1_output = file

\* C6 (window bound of part 1, as the specification states it): in every
\* reachable state of the sender next_seq - send_base <= SWS.
C6_WindowBoundA == p1_server.next_seq - p1_server.send_base <= p1_server.sws


\* the step is the ACK branch of send_file for the datagram d
P1RecvAckOf(d) ==
    /\ p1_server.pc = "loop"
    /\ d \in net_up
    /\ net_up' = Recv(net_up, d)
    /\ ParseSrAck(d.pkt) # NoneVal

\* C31 (ACK processing of part 1): an ACK marks the segment it names and no
\* other, the same ACK once more changes nothing of the sender, and in
\* every state the segments below send_base are acknowledged, the one at
\* send_base is not, and send_base <= next_seq.
C31_AckProcessingA ==
    /\ [][ \A d \in net_up : P1RecvAckOf(d) =>
              /\ p1_server'.individually_acked =
                    p1_server.individually_acked \cup {ParseSrAck(d.pkt)}
              /\ \A x \in RttSamples :
                    P1AfterSelect(OnAck(p1_server', file, ParseSrAck(d.pkt), x)) = p1_server' ]_vars
    /\ [](/\ \A s \in SeqNumbers(file) :
                s < p1_server.send_base => s \in p1_server.individually_acked
          /\ p1_server.send_base \notin p1_server.individually_acked
          /\ p1_server.send_base <= p1_server.next_seq)

\* the window has slid over segment 0 and a segment above the base is
\* acknowledged before the base
C31_Witness ==
    /\ p1_server.send_base > 0
    /\ \E s \in p1_server.individually_acked : s > p1_server.send_base


\* the segments of the window [send_base, send_base + SWS) that are not
\* acknowledged
UnackedInWindow ==
    { s \in SeqNumbers(file) :
        /\ s >= p1_server.send_base
        /\ s < p1_server.send_base + p1_server.sws
        /\ s \notin p1_server.individually_acked }

\* C32 (timeout of part 1): the timeout branch sends again every segment of
\* the window that is not acknowledged and no acknowledged one, and sets
\* the timeout to min(2 * timeout, 2.0 s), which is at most 2.0 s.
C32_TimeoutA ==
    [][ P1Timeout =>
          /\ Retransmitted(p1_server) = UnackedInWindow
          /\ ~P1ClientGone(p1_client.pc) =>
                net_down' = net_down \cup
                   { Dgram(CreatePacket(s, ChunkAt(file, s \div DATA_SIZE)), 1) :
                        s \in UnackedInWindow }
          /\ hist' = SentAll(hist, UnackedInWindow)
          /\ p1_server'.timeout = Min(2 * p1_server.timeout, MAX_TIMEOUT_US)
          /\ p1_server'.timeout <= MAX_TIMEOUT_US ]_vars

\* a timeout has sent the base again and left an acknowledged segment of
\* the window alone, and the doubling was cut at 2.0 s
C32_Witness ==
    /\ n_srv_to = 1
    /\ p1_server.timeout = MAX_TIMEOUT_US
    /\ p1_server.send_base \in DOMAIN hist.wire
    /\ \E s \in p1_server.individually_acked :
         /\ s > p1_server.send_base
         /\ s < p1_server.send_base + p1_server.sws
         /\ s \notin DOMAIN hist.wire


\* C38 (EOF of part 1 only after full acknowledgement): the sender leaves
\* the send loop and sends the EOF packet only once every chunk of the file
\* is individually acknowledged; the acknowledged set holds chunk sequence
\* numbers only, so its size reaches the number of chunks exactly when every
\* chunk is in it; and the EOF packet carries the file length as its
\* sequence number.
C38_EofAfterFullAckA ==
    /\ [][ P1SendEof =>
              /\ SeqNumbers(file) \subseteq p1_server.individually_acked
              /\ p1_server.next_seq = BLen(file)
              /\ ~P1ClientGone(p1_client.pc) =>
                    /\ Dgram(CreatePacket(BLen(file), EOF_MARKER), 1) \in net_down'
                    /\ \A d \in net_down' \ net_down :
                          /\ P1ParsePacket(d.pkt).seq_num = BLen(file)
                          /\ P1ParsePacket(d.pkt).data = EOF_MARKER ]_vars
    /\ [](/\ p1_server.individually_acked \subseteq SeqNumbers(file)
          /\ (Cardinality(p1_server.individually_acked) >= NumChunks(file))
                <=> (SeqNumbers(file) \subseteq p1_server.individually_acked)
          /\ p1_server.pc \in {"eof", "done"} =>
                SeqNumbers(file) \subseteq p1_server.individually_acked)

\* the EOF packet of a file of three chunks is on the wire, after chunk 0
\* had to be sent more than once
C38_Witness ==
    /\ p1_server.pc = "done"
    /\ NumChunks(file) = 3
    /\ hist.wire[0] > 1
    /\ \E d \in net_down : P1ParsePacket(d.pkt).data = EOF_MARKER
                           /\ P1ParsePacket(d.pkt).seq_num = BLen(file)

====
